---- MODULE Spec2Model ----
(***************************************************************************)
(* DevLoop iteration orchestration engine: task selection                  *)
(* (parser/requirements.ts), progress ledger (parser/progress.ts), agent   *)
(* result classification (core/claude.ts), checkpoint commits (core/git.ts)*)
(* and the run loop with its graceful-shutdown handler (core/loop.ts).     *)
(***************************************************************************)
EXTENDS Integers, Sequences, FiniteSets, TLC

(***************************************************************************)
(* Bounds of the model                                                     *)
(***************************************************************************)
\* largest number of tasks in a task document built by AddTask
MaxTasks == 2
\* largest number of appendIteration calls in SpecLedger
MaxAppends == 3
\* largest number of iteration records the ledger holds in Spec
MaxLedger == 2
\* largest value of config.maxIterations
MaxIter == 2
\* largest number of lines in the status output handed to getUncommittedChanges
MaxLines == 2
\* largest number of records appended to the ledger document in SpecDocument
MaxBlocks == 2
\* largest number of lines the agent writes to stdout in SpecStream
MaxStream == 2

(***************************************************************************)
(* Task documents (types/index.ts, parser/requirements.ts)                 *)
(***************************************************************************)
\* ids matched by TASK_REGEX; "TASK-10" sorts before "TASK-2" as a string
TaskIds == {"TASK-1", "TASK-2", "TASK-10"}

\* an id no task of the document carries, usable as a dependency
GhostId == "TASK-9"

TaskStatus == {"pending", "in-progress", "done"}

TaskPriority == {"high", "medium", "low"}

Task == [id : TaskIds, status : TaskStatus, priority : TaskPriority,
         dependencies : SUBSET (TaskIds \cup {GhostId})]

\* the value of a null task reference
NoTask == [id |-> "null", status |-> "null", priority |-> "null", dependencies |-> {}]

\* the characters of an id after the common prefix "TASK-"
IdChars(id) ==
  CASE id = "TASK-1" -> <<1>>
    [] id = "TASK-2" -> <<2>>
    [] id = "TASK-10" -> <<1, 0>>
    [] id = "TASK-9" -> <<9>>
    [] OTHER -> <<>>

\* the number an id carries
IdNumber(id) ==
  CASE id = "TASK-1" -> 1
    [] id = "TASK-2" -> 2
    [] id = "TASK-10" -> 10
    [] id = "TASK-9" -> 9
    [] OTHER -> 0

RECURSIVE CompareChars(_, _)
\* character-wise string comparison: negative, zero or positive
CompareChars(s, t) ==
  IF s = <<>> /\ t = <<>> THEN 0
  ELSE IF s = <<>> THEN -1
  ELSE IF t = <<>> THEN 1
  ELSE IF Head(s) # Head(t) THEN Head(s) - Head(t)
  ELSE CompareChars(Tail(s), Tail(t))

\* a.localeCompare(b) on task ids
localeCompare(a, b) == CompareChars(IdChars(a), IdChars(b))

priorityOrder(p) ==
  CASE p = "high" -> 0
    [] p = "medium" -> 1
    [] OTHER -> 2

\* variant: ids compared as numbers instead of as strings
compareTasksNumeric(a, b) ==
  LET priorityDiff == priorityOrder(a.priority) - priorityOrder(b.priority)
  IN IF priorityDiff # 0 THEN priorityDiff ELSE IdNumber(a.id) - IdNumber(b.id)

\* the comparator handed to sort() in getNextTask
compareTasks(a, b) ==
  LET priorityDiff == priorityOrder(a.priority) - priorityOrder(b.priority)
  IN IF priorityDiff # 0 THEN priorityDiff ELSE localeCompare(a.id, b.id)

\* x put into the sorted sequence s before the first element that compares greater
InsertSorted(s, x) ==
  LET later == {k \in 1..Len(s) : compareTasks(s[k], x) > 0}
      pos == IF later = {} THEN Len(s) + 1
             ELSE CHOOSE k \in later : \A m \in later : k <= m
  IN SubSeq(s, 1, pos - 1) \o <<x>> \o SubSeq(s, pos, Len(s))

RECURSIVE sortTasks(_)
\* Array.prototype.sort with compareTasks (a stable sort)
sortTasks(s) ==
  IF s = <<>> THEN <<>>
  ELSE InsertSorted(sortTasks(SubSeq(s, 1, Len(s) - 1)), s[Len(s)])

\* variant: every task that is not in progress counts as pending
IsPendingOrDone(t) == t.status # "in-progress"

IsPending(t) == t.status = "pending"

IsDone(t) == t.status = "done"

\* variant: a task counts as ready when some dependency is done
depsCompleteSome(task, completedIds) ==
  task.dependencies = {} \/ \E dep \in task.dependencies : dep \in completedIds

\* task.dependencies.every(dep => completedIds.has(dep))
depsComplete(task, completedIds) ==
  \A dep \in task.dependencies : dep \in completedIds

\* variant: when no pending task is ready the first pending task is returned
firstReadyOrHead(pendingTasks, completedIds) ==
  LET ready == {k \in DOMAIN pendingTasks : depsComplete(pendingTasks[k], completedIds)}
  IN IF pendingTasks = <<>> THEN NoTask
     ELSE IF ready = {} THEN Head(pendingTasks)
     ELSE pendingTasks[CHOOSE k \in ready : \A m \in ready : k <= m]

RECURSIVE firstReady(_, _)
\* the for loop of getNextTask: first task of the sequence whose dependencies are complete
firstReady(pendingTasks, completedIds) ==
  IF pendingTasks = <<>> THEN NoTask
  ELSE IF depsComplete(Head(pendingTasks), completedIds) THEN Head(pendingTasks)
  ELSE firstReady(Tail(pendingTasks), completedIds)

getNextTask(requirements) ==
  LET completedIds == {requirements[k].id : k \in {m \in DOMAIN requirements : IsDone(requirements[m])}}
      pendingTasks == sortTasks(SelectSeq(requirements, IsPending))
  IN firstReady(pendingTasks, completedIds)

(***************************************************************************)
(* Progress ledger (parser/progress.ts)                                    *)
(***************************************************************************)
ExitStatus == {"success", "error", "partial", "interrupted"}

ClaudeErrorType == {"rate_limit", "api_overload", "auth_error", "network_error",
                    "task_failure", "unknown"}

\* the value of an absent tokenUsage
NoUsage == -1

\* the ledger file does not exist
NoFile == [kind |-> "absent"]

\* readProgress found no file
NoProgress == [kind |-> "null"]

\* a numeric summary field as /(\d+)/ reads it: a minus sign does not match and '0' is used
ParseCount(n) == IF n < 0 THEN 0 ELSE n

\* one "### Iteration" block of the document
renderIteration(iter) ==
  [iteration |-> iter.iteration,
   taskCompleted |-> IF iter.taskCompleted = "null" THEN "none" ELSE iter.taskCompleted,
   exitStatus |-> iter.exitStatus,
   errorType |-> iter.errorType,
   tokens |-> iter.tokenUsage]

\* one block read back into an IterationLog
parseIteration(block) ==
  [iteration |-> block.iteration,
   taskCompleted |-> IF block.taskCompleted = "none" THEN "null" ELSE block.taskCompleted,
   exitStatus |-> block.exitStatus,
   errorType |-> block.errorType,
   tokenUsage |-> block.tokens]

parseProgressContent(content) ==
  [totalTasks |-> ParseCount(content.totalTasks),
   completed |-> ParseCount(content.completed),
   remaining |-> ParseCount(content.remaining),
   iterations |-> [k \in DOMAIN content.iterations |-> parseIteration(content.iterations[k])]]

generateProgressContent(totalTasks, completedCount, iterations) ==
  [totalTasks |-> totalTasks,
   completed |-> completedCount,
   remaining |-> totalTasks - completedCount,
   iterations |-> [k \in DOMAIN iterations |-> renderIteration(iterations[k])]]

readProgress(file) ==
  IF file = NoFile THEN NoProgress ELSE parseProgressContent(file)

writeProgress(progress) ==
  generateProgressContent(progress.totalTasks, progress.completed, progress.iterations)

\* variant: every success record counts as a completed task
countsAsCompletedAnySuccess(iteration) ==
  iteration.exitStatus = "success"

\* the condition under which appendIteration increments completed
countsAsCompleted(iteration) ==
  iteration.exitStatus = "success" /\ iteration.taskCompleted # "null"

\* the file content appendIteration leaves behind
appendIteration(file, totalTasks, iteration) ==
  LET existing == readProgress(file)
      progress == IF existing = NoProgress
                  THEN [totalTasks |-> totalTasks, completed |-> 0,
                        remaining |-> totalTasks, iterations |-> <<>>]
                  ELSE existing
      bump == IF countsAsCompleted(iteration) THEN 1 ELSE 0
  IN writeProgress([totalTasks |-> progress.totalTasks,
                    completed |-> progress.completed + bump,
                    remaining |-> progress.remaining - bump,
                    iterations |-> Append(progress.iterations, iteration)])

(***************************************************************************)
(* Agent results (core/claude.ts)                                          *)
(***************************************************************************)
\* the error kinds that stand for a failure of the service
ApiErrorTypes == ClaudeErrorType \ {"task_failure"}

\* what invokeClaudeAutomated resolves with when the service fails with kind apiKind:
\* errorType is set exactly on failure; a call that never reached the service
\* reports no usage
ClaudeResult(apiKind) ==
  {[success |-> TRUE, errorType |-> "undefined", tokenUsage |-> 1],
   [success |-> FALSE, errorType |-> "task_failure", tokenUsage |-> 1],
   [success |-> FALSE, errorType |-> apiKind, tokenUsage |-> NoUsage]}

\* everything invokeClaudeAutomated can resolve with: a failure carries any of the
\* error kinds, and usage if a result event reported it
ClaudeResults ==
  {[success |-> TRUE, errorType |-> "undefined", tokenUsage |-> 1]} \cup
  {[success |-> FALSE, errorType |-> kind, tokenUsage |-> usage] :
     kind \in ClaudeErrorType, usage \in {1, NoUsage}}

NoResult == [success |-> FALSE, errorType |-> "undefined", tokenUsage |-> NoUsage]

\* variant: only rate limits count as API errors
isApiErrorRateOnly(errorType) == errorType = "rate_limit"

isApiError(errorType) == errorType # "undefined" /\ errorType # "task_failure"

(***************************************************************************)
(* State                                                                   *)
(***************************************************************************)
VARIABLES
  serviceFailure,       \* the error kind the agent's service fails with, when it fails
  doc,                  \* requirements.md: the task document in durable storage
  ledger,               \* progress.md: NoFile or the written content
  session,              \* .devloop/session.json: lastIteration, NoSession if absent
  dirty,                \* the workspace has uncommitted changes outside .devloop/
  lastCommit,           \* the most recent commit call of the run that returned
  pc,                   \* the await runLoop is suspended at ("idle": no run)
  stopRequested,
  forceStopRequested,
  handlerInstalled,     \* the SIGINT listener of setupGracefulShutdown is registered
  config,               \* DevLoopConfig of the current run
  costLimitOption,      \* RunOptions.costLimit as handed to the run command, 0 if not given
  gitAvailable,         \* gitSetup.gitAvailable
  i,                    \* loop variable of runLoop
  startIteration,
  sessionTokens,        \* sessionTokens.total
  sessionCost,          \* sessionCost
  hasInterruptedWork,
  interruptedDuringTask,
  requirements,         \* tasks parsed at the start of the iteration
  nextTask,
  result,               \* result of the agent call of this iteration
  iterationLog,         \* record built for this iteration
  stopDuringCall,       \* history: the first SIGINT arrived while the agent call was in flight
  stopSeen,             \* history: stopRequested as read when the agent call returned
  invoked,              \* agent invocations started in the current run
  outcome,              \* the way the loop of the current run was left
  stoppedMessage,       \* the final summary reported "stopped by user"
  statusOutput,         \* what "git status --porcelain" prints, as a sequence of lines
  uncommitted,          \* what getUncommittedChanges returned for statusOutput
  handed,               \* the Progress most recently handed to writeProgress, <<>> if none
  document,             \* progress.md with every field of its records, NoFile if absent
  reread,               \* what readProgress returned for document, <<>> if not read
  pending,              \* bytes the agent's child process has still to write to stdout
  delivered,            \* history: the bytes of stdout the data handler has been given
  child,                \* the agent's child process: "none", "running", "closed", "failed"
  closeCode,            \* the exit code the close event carried
  stderr,               \* invokeClaudeAutomated: stderr collected so far
  lineBuffer,
  resultText,
  tokenUsage,
  isError,
  activities,           \* the activities onProgress has been called with, in order
  claudeResult          \* what the promise of invokeClaudeAutomated resolved with

files == <<doc, ledger, session, dirty>>

shutdown == <<stopRequested, forceStopRequested, handlerInstalled>>

runConfig == <<config, costLimitOption, gitAvailable, startIteration>>

iterLocals == <<requirements, nextTask, result, iterationLog, stopDuringCall, stopSeen>>

gitStatus == <<statusOutput, uncommitted>>

ledgerDocument == <<handed, document, reread>>

invocation == <<pending, delivered, child, closeCode, stderr, lineBuffer, resultText, tokenUsage, isError,
                activities, claudeResult>>

vars == <<serviceFailure, files, lastCommit, pc, shutdown, runConfig, i, sessionTokens,
          sessionCost, hasInterruptedWork, interruptedDuringTask, iterLocals, invoked, outcome,
          stoppedMessage, gitStatus, ledgerDocument, invocation>>

NoSession == -1

NoLog == [iteration |-> 0, taskCompleted |-> "null", exitStatus |-> "partial",
          errorType |-> "undefined", tokenUsage |-> NoUsage]

NoCommit == [kind |-> "none", iteration |-> 0, iterations |-> {}, committed |-> FALSE,
             hookFailure |-> FALSE, error |-> <<>>]

NoConfig == [maxIterations |-> 1, tokenLimit |-> 0, dryRun |-> FALSE, sessionAction |-> "none"]

\* config.tokenLimit where 0 stands for "not configured"
TokenLimits == {0, 1}

\* the costLimit option of the run command, where 0 stands for "not given"
CostLimits == {0, 1}

\* tokenUsage.costUsd of a call: a call costs as many units as it used tokens
costUsd(usage) == usage

\* buildRunConfig for "devloop run" (sessionAction create) and "devloop continue" (none, never dry)
DevLoopConfig ==
  {[maxIterations |-> m, tokenLimit |-> t, dryRun |-> d, sessionAction |-> "create"] :
     m \in 1..MaxIter, t \in TokenLimits, d \in BOOLEAN}
  \cup {[maxIterations |-> m, tokenLimit |-> t, dryRun |-> FALSE, sessionAction |-> "none"] :
     m \in 1..MaxIter, t \in TokenLimits}

\* the iteration records of the ledger file, none when the file is absent
LedgerIterations == IF ledger = NoFile THEN <<>> ELSE ledger.iterations

\* variant: the last iteration of the run is one too far
endIterationOneMore == startIteration + config.maxIterations

endIteration == startIteration + config.maxIterations - 1

(***************************************************************************)
(* Checkpoint commits (core/git.ts)                                        *)
(***************************************************************************)
\* a text is a sequence of pieces; a piece stands for the characters it spells, and
\* the indicators below are spelled with whole pieces
NoError == <<>>

\* hookIndicators of isHookError
hookIndicators ==
  {<<"hook">>, <<"pre-commit">>, <<"commit-msg">>, <<"husky">>, <<"commitlint">>,
   <<"conventional", " ", "commit">>, <<"commit", " ", "message">>,
   <<"does", " ", "not", " ", "match">>}

\* String.prototype.toLowerCase on the pieces of a text
toLowerCase(text) ==
  [k \in DOMAIN text |->
     CASE text[k] = "Husky" -> "husky"
       [] text[k] = "Hook" -> "hook"
       [] text[k] = "Fatal" -> "fatal"
       [] text[k] = "Rate" -> "rate"
       [] text[k] = "API" -> "api"
       [] text[k] = "Error" -> "error"
       [] text[k] = "Unknown" -> "unknown"
       [] text[k] = "Read" -> "read"
       [] text[k] = "Edit" -> "edit"
       [] text[k] = "HTTP" -> "http"
       [] text[k] = "ECONNREFUSED" -> "econnrefused"
       [] OTHER -> text[k]]

\* String.prototype.includes: the pattern occurs in the text without a gap
includes(text, pattern) ==
  \E start \in 1..(Len(text) - Len(pattern) + 1) :
    SubSeq(text, start, start + Len(pattern) - 1) = pattern

\* variant: the error text is searched as it is, without lowering its case
isHookErrorCaseSensitive(error) ==
  \E indicator \in hookIndicators : includes(error, indicator)

isHookError(error) ==
  \E indicator \in hookIndicators : includes(toLowerCase(error), indicator)

\* stderr of a "git commit" that exits non-zero: a message of a hook manager, of a
\* message linter, and of git itself
CommitErrorTexts ==
  {<<"Husky", " ", "rejected", " ", "the", " ", "change">>,
   <<"subject", " ", "does", " ", "not", " ", "match", " ", "format">>,
   <<"Fatal", ":", " ", "unable", " ", "to", " ", "write", " ", "index">>}

\* what gitCommit returns: committed, nothing staged, or the commit failed with an
\* error text, which is a hook failure if isHookError says so
GitCommitResults ==
  {[committed |-> TRUE, hookFailure |-> FALSE, error |-> NoError],
   [committed |-> FALSE, hookFailure |-> FALSE, error |-> NoError]}
  \cup {[committed |-> FALSE, hookFailure |-> isHookError(e), error |-> e] :
          e \in CommitErrorTexts}

\* variant: commitIteration goes to gitCommit whether or not git is available
commitIterationResultsAnyway(available) == GitCommitResults

\* commitIteration: without git nothing is committed and no hook failure is reported
commitIterationResults(available) ==
  IF available THEN GitCommitResults
  ELSE {[committed |-> FALSE, hookFailure |-> FALSE, error |-> NoError]}

\* the two status characters of a line of "git status --porcelain": modified in the
\* working tree, modified in the index, untracked
StatusCodes == {<<" ", "M">>, <<"M", " ">>, <<"?", "?">>}

\* paths git reports, spelled in pieces whose first is one character: the session
\* file of the engine and two files of the project
ChangedPaths ==
  {<<".", "devloop/", "session.json">>, <<"s", "rc/a.ts">>, <<"R", "EADME.md">>}

\* one line of the porcelain format: XY, a space, the path
StatusLine(code, path) == code \o <<" ">> \o path

\* the pieces String.prototype.trim removes: a space and a line break
Whitespace == {" ", "\n"}

RECURSIVE trimStart(_)
\* leading whitespace removed
trimStart(text) ==
  IF text = <<>> THEN text
  ELSE IF Head(text) \in Whitespace THEN trimStart(Tail(text))
  ELSE text

RECURSIVE trimEnd(_)
\* trailing whitespace removed
trimEnd(text) ==
  IF text = <<>> THEN text
  ELSE IF text[Len(text)] \in Whitespace THEN trimEnd(SubSeq(text, 1, Len(text) - 1))
  ELSE text

\* String.prototype.trim
trim(text) == trimEnd(trimStart(text))

\* String.prototype.substring(n)
substring(text, n) == SubSeq(text, n + 1, Len(text))

\* execGit resolves with stdout.trim(): of the lines git printed, the first loses its
\* leading whitespace and the last its trailing whitespace
execGitOutput(lines) ==
  [k \in DOMAIN lines |->
     IF k = 1 /\ k = Len(lines) THEN trim(lines[k])
     ELSE IF k = 1 THEN trimStart(lines[k])
     ELSE IF k = Len(lines) THEN trimEnd(lines[k])
     ELSE lines[k]]

\* getUncommittedChanges has not been called
NotCalled == [called |-> FALSE, hasChanges |-> FALSE, files |-> <<>>]

\* the ignorePaths runLoop passes
IgnoredByRunLoop == {<<".", "devloop/">>}

\* getUncommittedChanges on the lines git printed
getUncommittedChanges(lines, ignorePaths) ==
  LET output == execGitOutput(lines)
      NonEmpty(line) == trim(line) # <<>>
      nonEmptyLines == SelectSeq(output, NonEmpty)
      parsed == [k \in DOMAIN nonEmptyLines |-> trim(substring(nonEmptyLines[k], 3))]
      Kept(file) == ~\E ignorePath \in ignorePaths : includes(file, ignorePath)
      kept == SelectSeq(parsed, Kept)
  IN [called |-> TRUE, hasChanges |-> Len(kept) > 0, files |-> kept]

(***************************************************************************)
(* The ledger document with every field of its records                     *)
(* (parser/progress.ts, types/index.ts)                                    *)
(***************************************************************************)
\* an optional field is <<>> when it is undefined and <<value>> when it is set;
\* a cost is counted in hundred-thousandths of a dollar

\* result.tokenUsage of a call: more than a thousand tokens at $0.01234
UsageOfCall ==
  [totalTokens |-> 1500, inputTokens |-> 1000, outputTokens |-> 300,
   cacheCreationTokens |-> 200, cacheReadTokens |-> 0, costUsd |-> 1234]

\* Number.prototype.toLocaleString: the digits in groups of three, joined by commas
toLocaleString(n) == IF n < 1000 THEN <<n>> ELSE <<n \div 1000, n % 1000>>

\* parseInt(text.replace(/,/g, ''), 10) on the groups of digits
parseGroups(groups) ==
  IF Len(groups) = 1 THEN groups[1] ELSE groups[1] * 1000 + groups[2]

\* Number.prototype.toFixed(4): the amount in ten-thousandths of a dollar, rounded
toFixed4(cost) == (cost + 5) \div 10

\* parseFloat on the digits toFixed(4) printed
parseFloatCost(digits) == digits * 10

\* the part of a text that /(.+)/ captures: the pieces of its first line
firstLine(text) ==
  IF \E k \in DOMAIN text : text[k] = "\n"
  THEN SubSeq(text, 1, (CHOOSE k \in DOMAIN text :
                          text[k] = "\n" /\ \A j \in 1..(k - 1) : text[j] # "\n") - 1)
  ELSE text

\* the part of an error detail that the pattern of errorDetailMatch captures: the
\* pieces before the first line that starts with a fence of three backquotes, which
\* the piece "FENCE" spells
untilFence(text) ==
  LET closing == text \o <<"\n", "FENCE">>
      IsFence(k) == closing[k] = "\n" /\ closing[k + 1] = "FENCE"
      first == CHOOSE k \in 1..(Len(closing) - 1) :
                 IsFence(k) /\ \A j \in 1..(k - 1) : ~IsFence(j)
  IN SubSeq(closing, 1, first - 1)

\* the "- **Tokens**" and "- **Cost**" lines of a block
renderUsage(usage) ==
  [total |-> toLocaleString(usage.totalTokens),
   in |-> toLocaleString(usage.inputTokens),
   out |-> toLocaleString(usage.outputTokens),
   cacheCreate |-> toLocaleString(usage.cacheCreationTokens),
   cacheRead |-> toLocaleString(usage.cacheReadTokens),
   cost |-> toFixed4(usage.costUsd)]

\* the TokenUsage read from the two lines
parseUsage(lines) ==
  [totalTokens |-> parseGroups(lines.total),
   inputTokens |-> parseGroups(lines.in),
   outputTokens |-> parseGroups(lines.out),
   cacheCreationTokens |-> parseGroups(lines.cacheCreate),
   cacheReadTokens |-> parseGroups(lines.cacheRead),
   costUsd |-> parseFloatCost(lines.cost)]

\* one "### Iteration" block as generateProgressContent writes it: the optional
\* lines are written when the field is truthy
renderBlock(iter) ==
  [iteration |-> iter.iteration,
   timestamp |-> iter.timestamp,
   taskCompleted |-> IF iter.taskCompleted = "null" THEN "none" ELSE iter.taskCompleted,
   summary |-> iter.summary,
   duration |-> iter.duration,
   exitStatus |-> iter.exitStatus,
   usage |-> IF iter.tokenUsage = <<>> THEN <<>> ELSE <<renderUsage(iter.tokenUsage[1])>>,
   errorType |-> iter.errorType,
   errorDetail |-> IF iter.errorDetail \in {<<>>, <<NoError>>} THEN <<>> ELSE iter.errorDetail]

\* the five lines every block must have are matched: the summary line needs one
\* character after "- **Summary**: "
blockMatches(block) == firstLine(block.summary) # <<>>

\* one block read back into an IterationLog
parseBlock(block) ==
  [iteration |-> block.iteration,
   timestamp |-> block.timestamp,
   taskCompleted |-> IF block.taskCompleted = "none" THEN "null" ELSE block.taskCompleted,
   summary |-> trim(firstLine(block.summary)),
   duration |-> block.duration,
   exitStatus |-> block.exitStatus,
   tokenUsage |-> IF block.usage = <<>> THEN <<>> ELSE <<parseUsage(block.usage[1])>>,
   errorType |-> block.errorType,
   errorDetail |-> IF block.errorDetail = <<>> THEN <<>>
                   ELSE <<trim(untilFence(block.errorDetail[1]))>>]

\* generateProgressContent, written at the time now
generateProgressDocument(now, totalTasks, completedCount, iterations) ==
  [totalTasks |-> totalTasks,
   completed |-> completedCount,
   remaining |-> totalTasks - completedCount,
   lastUpdated |-> now,
   blocks |-> [k \in DOMAIN iterations |-> renderBlock(iterations[k])]]

\* parseProgressContent
parseProgressDocument(content) ==
  LET matched == SelectSeq(content.blocks, blockMatches)
  IN [totalTasks |-> ParseCount(content.totalTasks),
      completed |-> ParseCount(content.completed),
      remaining |-> ParseCount(content.remaining),
      lastUpdated |-> content.lastUpdated,
      iterations |-> [k \in DOMAIN matched |-> parseBlock(matched[k])]]

\* readProgress
readProgressDocument(file) ==
  IF file = NoFile THEN <<>> ELSE <<parseProgressDocument(file)>>

\* writeProgress at the time now
writeProgressDocument(now, progress) ==
  generateProgressDocument(now, progress.totalTasks, progress.completed, progress.iterations)

\* variant: the new record replaces the iteration list instead of being pushed to it
appendedProgressReplacing(file, now, totalTasks, iteration) ==
  LET existing == readProgressDocument(file)
      progress == IF existing = <<>>
                  THEN [totalTasks |-> totalTasks, completed |-> 0, remaining |-> totalTasks,
                        lastUpdated |-> now, iterations |-> <<>>]
                  ELSE existing[1]
      bump == IF countsAsCompleted(iteration) THEN 1 ELSE 0
  IN [totalTasks |-> progress.totalTasks,
      completed |-> progress.completed + bump,
      remaining |-> progress.remaining - bump,
      lastUpdated |-> now,
      iterations |-> <<iteration>>]

\* the Progress appendIteration hands to writeProgress at the time now
appendedProgress(file, now, totalTasks, iteration) ==
  LET existing == readProgressDocument(file)
      progress == IF existing = <<>>
                  THEN [totalTasks |-> totalTasks, completed |-> 0, remaining |-> totalTasks,
                        lastUpdated |-> now, iterations |-> <<>>]
                  ELSE existing[1]
      bump == IF countsAsCompleted(iteration) THEN 1 ELSE 0
  IN [totalTasks |-> progress.totalTasks,
      completed |-> progress.completed + bump,
      remaining |-> progress.remaining - bump,
      lastUpdated |-> now,
      iterations |-> Append(progress.iterations, iteration)]

(***************************************************************************)
(* The agent's output stream (core/claude.ts)                              *)
(***************************************************************************)
\* a byte stands for the ASCII characters of one piece, except that the character
\* "é" is the two bytes "C3" and "A9"
RECURSIVE encode(_)
\* the bytes the child process writes for a text
encode(text) ==
  IF text = <<>> THEN <<>>
  ELSE (IF Head(text) = "é" THEN <<"C3", "A9">> ELSE <<Head(text)>>) \o encode(Tail(text))

RECURSIVE toString(_)
\* Buffer.prototype.toString on one chunk: bytes that are not a whole character
\* become the replacement character U+FFFD
toString(bytes) ==
  IF bytes = <<>> THEN <<>>
  ELSE IF Head(bytes) = "C3" /\ Len(bytes) >= 2 /\ bytes[2] = "A9"
       THEN <<"é">> \o toString(SubSeq(bytes, 3, Len(bytes)))
  ELSE IF Head(bytes) \in {"C3", "A9"} THEN <<"U+FFFD">> \o toString(Tail(bytes))
  ELSE <<Head(bytes)>> \o toString(Tail(bytes))

RECURSIVE splitInto(_, _, _)
\* the lines of a text, given the lines before it and the pieces of its first line
\* read so far
splitInto(text, lines, line) ==
  IF text = <<>> THEN Append(lines, line)
  ELSE IF Head(text) = "\n" THEN splitInto(Tail(text), Append(lines, line), <<>>)
  ELSE splitInto(Tail(text), lines, Append(line, Head(text)))

\* String.prototype.split('\n')
split(text) == splitInto(text, <<>>, <<>>)

\* JSON.parse succeeds on the line: an object from "{" to "}"
isJson(line) ==
  LET text == trim(line)
  IN /\ Len(text) >= 3
     /\ text[1] = "{"
     /\ text[Len(text)] = "}"
     /\ \A k \in 2..(Len(text) - 1) : text[k] \notin {"{", "}"}

\* the event JSON.parse returns: its type and the rest of the object
parseEvent(line) ==
  LET text == trim(line)
  IN [type |-> text[2], body |-> SubSeq(text, 3, Len(text) - 1)]

\* formatToolActivity(name, input) for an input with a file_path
formatToolActivity(toolName, detail) ==
  CASE toLowerCase(<<toolName>>) = <<"read">> ->
         IF detail # <<>> THEN <<"Reading", " ">> \o detail ELSE <<"Reading file">>
    [] toLowerCase(<<toolName>>) = <<"edit">> ->
         IF detail # <<>> THEN <<"Editing", " ">> \o detail ELSE <<"Editing file">>
    [] OTHER -> <<"Using", " ", toolName>>

\* parseTokenUsage(event): undefined when the event has no usage object
parseTokenUsage(event) ==
  IF Len(event.body) >= 2 /\ event.body[2] = "usage" THEN <<UsageOfCall>> ELSE <<>>

\* event.result of a result event
resultOf(event) == SubSeq(event.body, 3, Len(event.body))

\* the locals of invokeClaudeAutomated before any output
NoOutput ==
  [lineBuffer |-> <<>>, resultText |-> <<>>, tokenUsage |-> <<>>, isError |-> FALSE,
   activities |-> <<>>]

\* variant: a line that is not JSON marks the call as failed
handleLineStrict(st, line) ==
  IF trim(line) = <<>> THEN st
  ELSE IF ~isJson(line) THEN [st EXCEPT !.isError = TRUE]
  ELSE LET event == parseEvent(line)
       IN CASE event.type \in {"content_block_start", "assistant"} /\ event.body # <<>> ->
                 [st EXCEPT !.activities =
                    Append(@, formatToolActivity(event.body[1], Tail(event.body)))]
            [] event.type = "result" ->
                 [st EXCEPT !.resultText = resultOf(event),
                            !.isError = (event.body # <<>> /\ event.body[1] = "is_error:true"),
                            !.tokenUsage = parseTokenUsage(event)]
            [] OTHER -> st

\* the body of the loop over the complete lines of the data handler
handleLine(st, line) ==
  IF trim(line) = <<>> THEN st
  ELSE IF ~isJson(line) THEN st
  ELSE LET event == parseEvent(line)
       IN CASE event.type \in {"content_block_start", "assistant"} /\ event.body # <<>> ->
                 [st EXCEPT !.activities =
                    Append(@, formatToolActivity(event.body[1], Tail(event.body)))]
            [] event.type = "result" ->
                 [st EXCEPT !.resultText = resultOf(event),
                            !.isError = (event.body # <<>> /\ event.body[1] = "is_error:true"),
                            !.tokenUsage = parseTokenUsage(event)]
            [] OTHER -> st

RECURSIVE handleLines(_, _)
\* for (const line of lines)
handleLines(st, lines) ==
  IF lines = <<>> THEN st ELSE handleLines(handleLine(st, Head(lines)), Tail(lines))

\* variant: every chunk is split into lines by itself, without the buffer
onDataUnbuffered(st, chunk) ==
  handleLines(st, split(toString(chunk)))

\* child.stdout.on('data'): the chunk joins the buffer, the complete lines are
\* handled and the incomplete last line stays in the buffer
onData(st, chunk) ==
  LET lines == split(st.lineBuffer \o toString(chunk))
  IN handleLines([st EXCEPT !.lineBuffer = lines[Len(lines)]],
                 SubSeq(lines, 1, Len(lines) - 1))

\* child.on('close'): the residual buffered line gets one parse attempt, for a
\* result event only
onCloseBuffer(st) ==
  IF trim(st.lineBuffer) # <<>> /\ isJson(st.lineBuffer)
     /\ parseEvent(st.lineBuffer).type = "result"
  THEN LET event == parseEvent(st.lineBuffer)
       IN [st EXCEPT !.resultText = IF resultOf(event) # <<>> THEN resultOf(event) ELSE @,
                     !.isError = (event.body # <<>> /\ event.body[1] = "is_error:true"),
                     !.tokenUsage = IF parseTokenUsage(event) # <<>>
                                    THEN parseTokenUsage(event) ELSE @]
  ELSE st

\* variant: the service rules are tried after the network rule
classifyErrorNetworkFirst(stderrText, errorMessage) ==
  LET errorText == toLowerCase(stderrText \o errorMessage)
      has(pattern) == includes(errorText, pattern)
  IN IF has(<<"econnrefused">>) \/ has(<<"enotfound">>) \/ has(<<"timeout">>)
        \/ has(<<"network">>)
     THEN "network_error"
     ELSE IF has(<<"rate", " ", "limit">>) \/ has(<<"api", " ", "usage", " ", "limit">>)
             \/ has(<<"429">>) \/ (has(<<"400">>) /\ has(<<"limit">>))
     THEN "rate_limit"
     ELSE IF has(<<"overload">>) \/ has(<<"503">>) THEN "api_overload"
     ELSE IF has(<<"401">>) \/ has(<<"unauthorized">>) \/ has(<<"authentication">>)
     THEN "auth_error"
     ELSE IF has(<<"api", " ", "error">>) THEN "unknown"
     ELSE "task_failure"

\* classifyError(stderr, errorMessage), where <<>> is the empty or absent text
classifyError(stderrText, errorMessage) ==
  LET errorText == toLowerCase(stderrText \o errorMessage)
      has(pattern) == includes(errorText, pattern)
  IN IF has(<<"rate", " ", "limit">>) \/ has(<<"api", " ", "usage", " ", "limit">>)
        \/ has(<<"429">>) \/ (has(<<"400">>) /\ has(<<"limit">>))
     THEN "rate_limit"
     ELSE IF has(<<"overload">>) \/ has(<<"503">>) THEN "api_overload"
     ELSE IF has(<<"401">>) \/ has(<<"unauthorized">>) \/ has(<<"authentication">>)
     THEN "auth_error"
     ELSE IF has(<<"econnrefused">>) \/ has(<<"enotfound">>) \/ has(<<"timeout">>)
             \/ has(<<"network">>)
     THEN "network_error"
     ELSE IF has(<<"api", " ", "error">>) THEN "unknown"
     ELSE "task_failure"

\* errorMessage of the close handler: stderr.trim() and, if it includes 'API Error',
\* the result text, joined by a line break, or 'Unknown error'
errorMessageOf(st, stderrText) ==
  LET first == IF stderrText # <<>> THEN <<trim(stderrText)>> ELSE <<>>
      second == IF st.resultText # <<>> /\ includes(st.resultText, <<"API", " ", "Error">>)
                THEN <<st.resultText>> ELSE <<>>
      parts == first \o second
      joined == IF Len(parts) = 2 THEN parts[1] \o <<"\n">> \o parts[2]
                ELSE IF Len(parts) = 1 THEN parts[1] ELSE <<>>
  IN IF joined # <<>> THEN joined ELSE <<"Unknown", " ", "error">>

\* variant: only the exit code decides whether the call failed
resolvedOnCloseByCodeOnly(st, exitCode, stderrText) ==
  LET hasError == exitCode # 0
      errorMessage == errorMessageOf(st, stderrText)
  IN [success |-> ~hasError,
      output |-> st.resultText,
      error |-> IF hasError THEN <<errorMessage>> ELSE <<>>,
      errorType |-> IF hasError THEN classifyError(errorMessage, <<>>) ELSE "undefined",
      tokenUsage |-> st.tokenUsage]

\* the ClaudeResult the close handler resolves with, from the locals after the
\* residual line was handled
resolvedOnClose(st, exitCode, stderrText) ==
  LET hasError == exitCode # 0 \/ st.isError
      errorMessage == errorMessageOf(st, stderrText)
  IN [success |-> ~hasError,
      output |-> st.resultText,
      error |-> IF hasError THEN <<errorMessage>> ELSE <<>>,
      errorType |-> IF hasError THEN classifyError(errorMessage, <<>>) ELSE "undefined",
      tokenUsage |-> st.tokenUsage]

\* the ClaudeResult the error handler resolves with
resolvedOnError(message) ==
  [success |-> FALSE, output |-> <<>>, error |-> <<message>>,
   errorType |-> classifyError(message, <<>>), tokenUsage |-> <<>>]

\* iteration numbers of the ledger records git add -A stages
StagedIterations ==
  {LedgerIterations[k].iteration : k \in DOMAIN LedgerIterations}

(***************************************************************************)
(* Run loop (core/loop.ts)                                                 *)
(***************************************************************************)
\* variant: the record keeps the agent's own verdict when a stop was requested
buildIterationLogIgnoringStop(iter, stop, res, task) ==
  [iteration |-> iter,
   taskCompleted |-> IF res.success THEN task.id ELSE "null",
   exitStatus |-> IF res.success THEN "success" ELSE "error",
   errorType |-> IF res.success THEN "undefined" ELSE res.errorType,
   tokenUsage |-> res.tokenUsage]

\* the IterationLog runLoop builds after the agent call returned
buildIterationLog(iter, stop, res, task) ==
  IF stop
  THEN [iteration |-> iter, taskCompleted |-> "null", exitStatus |-> "interrupted",
        errorType |-> "undefined", tokenUsage |-> res.tokenUsage]
  ELSE [iteration |-> iter,
        taskCompleted |-> IF res.success THEN task.id ELSE "null",
        exitStatus |-> IF res.success THEN "success" ELSE "error",
        errorType |-> IF res.success THEN "undefined" ELSE res.errorType,
        tokenUsage |-> res.tokenUsage]

\* variant: resuming restarts the numbering at the length of the ledger
resumeIterationAtLength(existingProgress) ==
  IF existingProgress = NoProgress \/ Len(existingProgress.iterations) = 0 THEN 1
  ELSE Len(existingProgress.iterations)

\* startIteration as runLoop computes it from the existing progress
resumeIteration(existingProgress) ==
  IF existingProgress = NoProgress THEN 1 ELSE Len(existingProgress.iterations) + 1

\* variant: the loop moves to the next iteration while the append is under way
afterAgentCallNotAwaited(log) == "sleeping"

\* variant: the commit is made before the record is appended
afterAgentCallCommitFirst(log) == "committing"

\* the first await after the agent call returned: appendIteration, in both branches
afterAgentCall(log) == "appending"

\* variant: an interrupted iteration leaves the loop without a commit
afterSessionUpdateNoCommitOnStop(log, res) ==
  IF log.exitStatus = "interrupted" THEN "cleanup"
  ELSE IF res.success THEN "committing"
  ELSE IF res.errorType # "undefined" /\ res.errorType # "task_failure" THEN "cleanup"
  ELSE "committing"

\* where runLoop goes after the session update: a failed call with an API error
\* breaks out of the loop, everything else goes on to commitIteration
afterSessionUpdate(log, res) ==
  IF log.exitStatus = "interrupted" THEN "committing"
  ELSE IF res.success THEN "committing"
  ELSE IF isApiError(res.errorType) THEN "cleanup"
  ELSE "committing"

\* variant: a task failure leaves the loop like a hook failure
afterCommitStopOnError(log, commitResult) ==
  IF log.exitStatus \in {"interrupted", "error"} THEN "cleanup"
  ELSE IF commitResult.hookFailure THEN "cleanup"
  ELSE "sleeping"

\* where runLoop goes once commitIteration returned
afterCommit(log, commitResult) ==
  IF log.exitStatus = "interrupted" THEN "cleanup"
  ELSE IF commitResult.hookFailure THEN "cleanup"
  ELSE "sleeping"

\* variant: a document without pending tasks counts as blocked
emptyPendingOutcomeBlocked(pendingTasks) ==
  IF pendingTasks = <<>> THEN "blocked" ELSE "running"

\* the check "pendingTasks.length === 0" that ends the run as completed
emptyPendingOutcome(pendingTasks) ==
  IF pendingTasks = <<>> THEN "completed" ELSE "running"

\* the task document with the status of one task replaced
SetStatus(d, id, status) ==
  [k \in DOMAIN d |-> IF d[k].id = id THEN [d[k] EXCEPT !.status = status] ELSE d[k]]

\* the variables of one round of the loop body go out of scope
ResetIterLocals ==
  /\ requirements' = <<>>
  /\ nextTask' = NoTask
  /\ result' = NoResult
  /\ iterationLog' = NoLog
  /\ stopDuringCall' = FALSE
  /\ stopSeen' = FALSE

\* the variables of runLoop go out of scope
ResetRunLocals ==
  /\ config' = NoConfig
  /\ costLimitOption' = 0
  /\ gitAvailable' = FALSE
  /\ startIteration' = 0
  /\ i' = 0
  /\ sessionTokens' = 0
  /\ sessionCost' = 0
  /\ hasInterruptedWork' = FALSE
  /\ interruptedDuringTask' = FALSE
  /\ invoked' = 0
  /\ lastCommit' = NoCommit
  /\ ResetIterLocals

\* runLoop is called: the SIGINT listener is registered, ensureGitRepo is awaited
StartRun ==
  /\ pc = "idle"
  /\ \E cfg \in DevLoopConfig, cost \in CostLimits, git \in BOOLEAN :
       /\ Len(LedgerIterations) + cfg.maxIterations <= MaxLedger
       /\ config' = cfg
       /\ costLimitOption' = cost
       /\ gitAvailable' = git
  /\ handlerInstalled' = TRUE
  /\ pc' = "starting"
  /\ outcome' = "running"
  /\ stoppedMessage' = FALSE
  /\ UNCHANGED <<serviceFailure, gitStatus, ledgerDocument, invocation, files, lastCommit, stopRequested, forceStopRequested,
                 startIteration, i, sessionTokens, sessionCost, hasInterruptedWork,
                 interruptedDuringTask,
                 iterLocals, invoked>>

\* uncommitted-changes check, session creation, readProgress, start of the for loop
Setup ==
  /\ pc = "starting"
  /\ hasInterruptedWork' = (gitAvailable /\ dirty)
  /\ session' = IF config.sessionAction = "create" THEN 0 ELSE session
  /\ startIteration' = resumeIteration(readProgress(ledger))
  /\ i' = resumeIteration(readProgress(ledger))
  /\ pc' = "top"
  /\ UNCHANGED <<serviceFailure, gitStatus, ledgerDocument, invocation, doc, ledger, dirty, lastCommit, shutdown, config,
                 costLimitOption, gitAvailable,
                 sessionTokens, sessionCost, interruptedDuringTask, iterLocals, invoked, outcome,
                 stoppedMessage>>

\* variant: the token guard lets a run go on when the limit is met exactly
LoopTopStrictLimit ==
  /\ pc = "top"
  /\ IF i > endIteration THEN pc' = "cleanup" /\ outcome' = "exhausted"
     ELSE IF stopRequested THEN pc' = "cleanup" /\ outcome' = "stopped"
     ELSE IF config.tokenLimit # 0 /\ sessionTokens > config.tokenLimit
          THEN pc' = "cleanup" /\ outcome' = "tokenLimit"
     ELSE pc' = "parsing" /\ outcome' = outcome
  /\ UNCHANGED <<serviceFailure, gitStatus, ledgerDocument, invocation, files, lastCommit, shutdown, runConfig, i,
                 sessionTokens, sessionCost, hasInterruptedWork, interruptedDuringTask,
                 iterLocals, invoked, stoppedMessage>>

\* the loop condition and the two guards at the top of the loop body
LoopTop ==
  /\ pc = "top"
  /\ IF i > endIteration THEN pc' = "cleanup" /\ outcome' = "exhausted"
     ELSE IF stopRequested THEN pc' = "cleanup" /\ outcome' = "stopped"
     ELSE IF config.tokenLimit # 0 /\ sessionTokens >= config.tokenLimit
          THEN pc' = "cleanup" /\ outcome' = "tokenLimit"
     ELSE pc' = "parsing" /\ outcome' = outcome
  /\ UNCHANGED <<serviceFailure, gitStatus, ledgerDocument, invocation, files, lastCommit, shutdown, runConfig, i,
                 sessionTokens, sessionCost,
                 hasInterruptedWork, interruptedDuringTask, iterLocals, invoked,
                 stoppedMessage>>

\* variant: the loop goes on to the next iteration when parseRequirements threw
ParseFailsGoesOn ==
  /\ pc = "parsing"
  /\ pc' = "sleeping"
  /\ outcome' = "parseError"
  /\ UNCHANGED <<serviceFailure, gitStatus, ledgerDocument, invocation, files, lastCommit, shutdown, runConfig, i,
                 sessionTokens, sessionCost,
                 hasInterruptedWork, interruptedDuringTask, iterLocals, invoked,
                 stoppedMessage>>

\* parseRequirements threw: the loop is left
ParseFails ==
  /\ pc = "parsing"
  /\ pc' = "cleanup"
  /\ outcome' = "parseError"
  /\ UNCHANGED <<serviceFailure, gitStatus, ledgerDocument, invocation, files, lastCommit, shutdown, runConfig, i,
                 sessionTokens, sessionCost,
                 hasInterruptedWork, interruptedDuringTask, iterLocals, invoked,
                 stoppedMessage>>

\* variant: the continue of a dry run does not reach the increment of the for loop
BeginTaskDryRunStays(task) ==
  IF config.dryRun
  THEN /\ pc' = "top" /\ i' = i /\ invoked' = invoked
       /\ ResetIterLocals
  ELSE /\ pc' = "invoking" /\ i' = i /\ invoked' = invoked + 1
       /\ requirements' = doc /\ nextTask' = task
       /\ UNCHANGED <<result, iterationLog, stopDuringCall, stopSeen>>

\* a task is selected and interrupted work is dealt with: a dry run goes on to the
\* next round, otherwise the agent is invoked
BeginTask(task) ==
  IF config.dryRun
  THEN /\ pc' = "top" /\ i' = i + 1 /\ invoked' = invoked
       /\ ResetIterLocals
  ELSE /\ pc' = "invoking" /\ i' = i /\ invoked' = invoked + 1
       /\ requirements' = doc /\ nextTask' = task
       /\ UNCHANGED <<result, iterationLog, stopDuringCall, stopSeen>>

\* parseRequirements returned: completion check, getNextTask, blocked check
SelectTask ==
  /\ pc = "parsing"
  /\ IF emptyPendingOutcome(SelectSeq(doc, IsPending)) # "running"
     THEN /\ pc' = "cleanup"
          /\ outcome' = emptyPendingOutcome(SelectSeq(doc, IsPending))
          /\ requirements' = doc /\ nextTask' = NoTask
          /\ UNCHANGED <<i, invoked, result, iterationLog, stopDuringCall, stopSeen>>
     ELSE IF getNextTask(doc) = NoTask
          THEN /\ pc' = "cleanup" /\ outcome' = "blocked"
               /\ requirements' = doc /\ nextTask' = NoTask
               /\ UNCHANGED <<i, invoked, result, iterationLog, stopDuringCall, stopSeen>>
          ELSE IF hasInterruptedWork
               THEN /\ pc' = "committingInterrupted"
                    /\ requirements' = doc /\ nextTask' = getNextTask(doc)
                    /\ UNCHANGED <<i, invoked, outcome, result, iterationLog, stopDuringCall,
                                   stopSeen>>
               ELSE BeginTask(getNextTask(doc)) /\ UNCHANGED outcome
  /\ UNCHANGED <<serviceFailure, gitStatus, ledgerDocument, invocation, files, lastCommit, shutdown, runConfig,
                 sessionTokens, sessionCost,
                 hasInterruptedWork, interruptedDuringTask, stoppedMessage>>

\* variant: the loop goes on to the task when the interrupted work was not committed
CommitInterruptedDoneGoesOn ==
  /\ pc = "committingInterrupted"
  /\ \E committed \in BOOLEAN :
       /\ lastCommit' = [kind |-> "interrupted", iteration |-> i,
                         iterations |-> IF committed THEN StagedIterations ELSE {},
                         committed |-> committed, hookFailure |-> FALSE,
                         error |-> NoError]
       /\ dirty' = IF committed THEN FALSE ELSE dirty
       /\ hasInterruptedWork' = ~committed
       /\ IF config.dryRun
          THEN pc' = "top" /\ i' = i + 1 /\ invoked' = invoked /\ ResetIterLocals
          ELSE /\ pc' = "invoking" /\ i' = i /\ invoked' = invoked + 1
               /\ UNCHANGED iterLocals
       /\ UNCHANGED outcome
  /\ UNCHANGED <<serviceFailure, gitStatus, ledgerDocument, invocation, doc, ledger, session, shutdown, runConfig,
                 sessionTokens, sessionCost, interruptedDuringTask, stoppedMessage>>

\* commitInterruptedWork returned
CommitInterruptedDone ==
  /\ pc = "committingInterrupted"
  /\ \E committed \in BOOLEAN :
       /\ lastCommit' = [kind |-> "interrupted", iteration |-> i,
                         iterations |-> IF committed THEN StagedIterations ELSE {},
                         committed |-> committed, hookFailure |-> FALSE,
                         error |-> NoError]
       /\ IF committed
          THEN /\ dirty' = FALSE
               /\ hasInterruptedWork' = FALSE
               /\ IF config.dryRun
                  THEN pc' = "top" /\ i' = i + 1 /\ invoked' = invoked /\ ResetIterLocals
                  ELSE /\ pc' = "invoking" /\ i' = i /\ invoked' = invoked + 1
                       /\ UNCHANGED iterLocals
               /\ UNCHANGED outcome
          ELSE /\ pc' = "cleanup" /\ outcome' = "interruptedWorkFailed"
               /\ UNCHANGED <<dirty, hasInterruptedWork, i, invoked, iterLocals>>
  /\ UNCHANGED <<serviceFailure, gitStatus, ledgerDocument, invocation, doc, ledger, session, shutdown, runConfig,
                 sessionTokens, sessionCost,
                 interruptedDuringTask, stoppedMessage>>

\* the agent, while it runs, marks its task done in the task document
AgentWorks ==
  /\ pc = "invoking"
  /\ \E k \in DOMAIN doc : doc[k].id = nextTask.id /\ doc[k].status = "pending"
  /\ doc' = SetStatus(doc, nextTask.id, "done")
  /\ dirty' = TRUE
  /\ UNCHANGED <<serviceFailure, gitStatus, ledgerDocument, invocation, ledger, session, lastCommit, pc, shutdown, runConfig, i,
                 sessionTokens, sessionCost, hasInterruptedWork, interruptedDuringTask, iterLocals,
                 invoked, outcome, stoppedMessage>>

\* invokeClaudeAutomated resolved with one of results: stop check, token tracking,
\* the iteration record
AgentReturnsFrom(results) ==
  /\ pc = "invoking"
  /\ \E res \in results :
       /\ result' = res
       /\ iterationLog' = buildIterationLog(i, stopRequested, res, nextTask)
       /\ sessionTokens' = IF ~stopRequested /\ res.tokenUsage # NoUsage
                           THEN sessionTokens + res.tokenUsage
                           ELSE sessionTokens
       /\ sessionCost' = IF ~stopRequested /\ res.tokenUsage # NoUsage
                         THEN sessionCost + costUsd(res.tokenUsage)
                         ELSE sessionCost
       /\ pc' = afterAgentCall(buildIterationLog(i, stopRequested, res, nextTask))
  /\ stopSeen' = stopRequested
  /\ UNCHANGED <<serviceFailure, gitStatus, ledgerDocument, invocation, files, lastCommit, shutdown, runConfig, i,
                 hasInterruptedWork, interruptedDuringTask, requirements, nextTask,
                 stopDuringCall, invoked, outcome, stoppedMessage>>

\* the agent call of a behaviour whose service fails with one kind
AgentReturns == AgentReturnsFrom(ClaudeResult(serviceFailure))

\* await appendIteration(progressPath, requirements.tasks.length, iterationLog)
AppendDone ==
  /\ pc = "appending"
  /\ ledger' = appendIteration(ledger, Len(requirements), iterationLog)
  /\ dirty' = TRUE
  /\ pc' = "updatingSession"
  /\ UNCHANGED <<serviceFailure, gitStatus, ledgerDocument, invocation, doc, session, lastCommit, shutdown, runConfig, i,
                 sessionTokens, sessionCost, hasInterruptedWork, interruptedDuringTask, iterLocals,
                 invoked, outcome, stoppedMessage>>

\* await updateSessionIteration(workspace, i), then the API error check
UpdateSessionDone ==
  /\ pc = "updatingSession"
  /\ session' = IF session = NoSession THEN NoSession ELSE i
  /\ pc' = afterSessionUpdate(iterationLog, result)
  /\ outcome' = IF afterSessionUpdate(iterationLog, result) = "cleanup" THEN "apiError"
                ELSE outcome
  /\ UNCHANGED <<serviceFailure, gitStatus, ledgerDocument, invocation, doc, ledger, dirty, lastCommit, shutdown, runConfig, i,
                 sessionTokens, sessionCost, hasInterruptedWork, interruptedDuringTask, iterLocals,
                 invoked, stoppedMessage>>

\* await commitIteration(...) returned, then the hook failure check
CommitDone ==
  /\ pc = "committing"
  /\ \E r \in commitIterationResults(gitAvailable) :
       /\ lastCommit' = [kind |-> "iteration", iteration |-> i,
                         iterations |-> IF r.committed THEN StagedIterations ELSE {},
                         committed |-> r.committed, hookFailure |-> r.hookFailure,
                         error |-> r.error]
       /\ dirty' = IF r.committed THEN FALSE ELSE dirty
       /\ pc' = afterCommit(iterationLog, r)
       /\ outcome' = IF afterCommit(iterationLog, r) # "cleanup" THEN outcome
                     ELSE IF iterationLog.exitStatus = "interrupted" THEN "interrupted"
                     ELSE "hookFailure"
  /\ interruptedDuringTask' = (iterationLog.exitStatus = "interrupted")
  /\ UNCHANGED <<serviceFailure, gitStatus, ledgerDocument, invocation, doc, ledger, session, shutdown, runConfig, i,
                 sessionTokens, sessionCost,
                 hasInterruptedWork, iterLocals, invoked, stoppedMessage>>

\* await sleep(1000) returned: next round of the for loop
SleepDone ==
  /\ pc = "sleeping"
  /\ i' = i + 1
  /\ pc' = "top"
  /\ ResetIterLocals
  /\ UNCHANGED <<serviceFailure, gitStatus, ledgerDocument, invocation, files, lastCommit, shutdown, runConfig,
                 sessionTokens, sessionCost,
                 hasInterruptedWork, interruptedDuringTask, invoked, outcome,
                 stoppedMessage>>

\* variant: the listener is removed and the flags are left as they are
CleanupKeepsFlags ==
  /\ pc = "cleanup"
  /\ handlerInstalled' = FALSE
  /\ pc' = "summary"
  /\ UNCHANGED <<stopRequested, forceStopRequested>>
  /\ UNCHANGED <<serviceFailure, gitStatus, ledgerDocument, invocation, files, lastCommit, runConfig, i, sessionTokens,
                 sessionCost,
                 hasInterruptedWork, interruptedDuringTask, iterLocals, invoked, outcome,
                 stoppedMessage>>

\* cleanupShutdownHandler(): the listener is removed and both flags are reset
Cleanup ==
  /\ pc = "cleanup"
  /\ handlerInstalled' = FALSE
  /\ stopRequested' = FALSE
  /\ forceStopRequested' = FALSE
  /\ pc' = "summary"
  /\ UNCHANGED <<serviceFailure, gitStatus, ledgerDocument, invocation, files, lastCommit, runConfig, i, sessionTokens,
                 sessionCost,
                 hasInterruptedWork, interruptedDuringTask, iterLocals, invoked, outcome,
                 stoppedMessage>>

\* the final summary after await readProgress: runLoop returns
Summary ==
  /\ pc = "summary"
  /\ stoppedMessage' = (stopRequested /\ ~interruptedDuringTask)
  /\ pc' = "idle"
  /\ ResetRunLocals
  /\ UNCHANGED <<serviceFailure, gitStatus, ledgerDocument, invocation, files, shutdown, outcome>>

\* the awaits of runLoop at which the event loop can run the SIGINT listener
Suspended ==
  pc \in {"starting", "parsing", "committingInterrupted", "invoking", "appending",
          "updatingSession", "committing", "sleeping"}

\* variant: the listener ends the process on the second signal
SignalExitsOnSecond ==
  /\ handlerInstalled
  /\ Suspended
  /\ IF stopRequested
     THEN /\ pc' = "exited" /\ outcome' = "forceExit"
          /\ ResetRunLocals
          /\ UNCHANGED <<stopRequested, forceStopRequested>>
     ELSE /\ stopRequested' = TRUE
          /\ stopDuringCall' = (pc = "invoking")
          /\ UNCHANGED <<forceStopRequested, pc, outcome, lastCommit, runConfig, i,
                         sessionTokens, sessionCost, hasInterruptedWork,
                         interruptedDuringTask, requirements, nextTask, result,
                         iterationLog, stopSeen, invoked>>
  /\ UNCHANGED <<serviceFailure, gitStatus, ledgerDocument, invocation, files, handlerInstalled, stoppedMessage>>

\* the SIGINT listener of setupGracefulShutdown
Signal ==
  /\ handlerInstalled
  /\ Suspended
  /\ IF forceStopRequested
     THEN /\ pc' = "exited" /\ outcome' = "forceExit"
          /\ ResetRunLocals
          /\ UNCHANGED <<stopRequested, forceStopRequested>>
     ELSE /\ IF stopRequested
             THEN forceStopRequested' = TRUE /\ UNCHANGED <<stopRequested, stopDuringCall>>
             ELSE /\ stopRequested' = TRUE
                  /\ stopDuringCall' = (pc = "invoking")
                  /\ UNCHANGED forceStopRequested
          /\ UNCHANGED <<pc, outcome, lastCommit, runConfig, i, sessionTokens, sessionCost,
                         hasInterruptedWork, interruptedDuringTask, requirements, nextTask,
                         result, iterationLog, stopSeen, invoked>>
  /\ UNCHANGED <<serviceFailure, gitStatus, ledgerDocument, invocation, files, handlerInstalled, stoppedMessage>>

\* SIGINT with no listener registered ends the process
DefaultSigint ==
  /\ pc = "summary"
  /\ ~handlerInstalled
  /\ pc' = "exited"
  /\ outcome' = "killed"
  /\ ResetRunLocals
  /\ UNCHANGED <<serviceFailure, gitStatus, ledgerDocument, invocation, files, shutdown, stoppedMessage>>

\* the operator starts the program again after the process was ended
Relaunch ==
  /\ pc = "exited"
  /\ pc' = "idle"
  /\ stopRequested' = FALSE
  /\ forceStopRequested' = FALSE
  /\ handlerInstalled' = FALSE
  /\ UNCHANGED <<serviceFailure, gitStatus, ledgerDocument, invocation, files, lastCommit, runConfig, i, sessionTokens,
                 sessionCost,
                 hasInterruptedWork, interruptedDuringTask, iterLocals, invoked, outcome,
                 stoppedMessage>>

\* task documents a run starts from
InitDocs ==
  {<<[id |-> "TASK-2", status |-> "pending", priority |-> "medium", dependencies |-> {}],
     [id |-> "TASK-10", status |-> "pending", priority |-> "medium", dependencies |-> d]>> :
     d \in {{"TASK-2"}, {GhostId}}}
  \cup {<<[id |-> "TASK-2", status |-> "pending", priority |-> "medium", dependencies |-> {}],
          [id |-> "TASK-10", status |-> "in-progress", priority |-> "high",
           dependencies |-> {}]>>,
        <<[id |-> "TASK-2", status |-> "pending", priority |-> "medium", dependencies |-> {}]>>,
        <<[id |-> "TASK-2", status |-> "pending", priority |-> "medium",
           dependencies |-> {"TASK-10"}],
          [id |-> "TASK-10", status |-> "pending", priority |-> "medium",
           dependencies |-> {"TASK-2"}]>>,
        <<[id |-> "TASK-2", status |-> "pending", priority |-> "medium",
           dependencies |-> {"TASK-2"}]>>}

InitLocals ==
  /\ config = NoConfig
  /\ costLimitOption = 0
  /\ gitAvailable = FALSE
  /\ i = 0
  /\ startIteration = 0
  /\ sessionTokens = 0
  /\ sessionCost = 0
  /\ hasInterruptedWork = FALSE
  /\ interruptedDuringTask = FALSE
  /\ requirements = <<>>
  /\ nextTask = NoTask
  /\ result = NoResult
  /\ iterationLog = NoLog
  /\ stopDuringCall = FALSE
  /\ stopSeen = FALSE
  /\ invoked = 0
  /\ outcome = "none"
  /\ stoppedMessage = FALSE
  /\ lastCommit = NoCommit

\* no status has been taken
InitGitStatus ==
  /\ statusOutput = <<>>
  /\ uncommitted = NotCalled

\* no ledger document has been written or read
InitLedgerDocument ==
  /\ handed = <<>>
  /\ document = NoFile
  /\ reread = <<>>

\* no agent has been spawned
InitInvocation ==
  /\ pending = <<>>
  /\ delivered = <<>>
  /\ child = "none"
  /\ closeCode = 0
  /\ stderr = <<>>
  /\ lineBuffer = <<>>
  /\ resultText = <<>>
  /\ tokenUsage = <<>>
  /\ isError = FALSE
  /\ activities = <<>>
  /\ claudeResult = <<>>

InitProcess ==
  /\ pc = "idle"
  /\ InitGitStatus
  /\ InitLedgerDocument
  /\ InitInvocation
  /\ stopRequested = FALSE
  /\ forceStopRequested = FALSE
  /\ handlerInstalled = FALSE

\* a fresh workspace: a task document, no ledger, no session
FreshWorkspace ==
  /\ doc \in InitDocs
  /\ ledger = NoFile
  /\ session = NoSession
  /\ InitProcess
  /\ InitLocals

\* the first run starts with nothing to commit
Init ==
  /\ serviceFailure = "rate_limit"
  /\ dirty = FALSE
  /\ FreshWorkspace

Next ==
  \/ StartRun
  \/ Setup
  \/ LoopTop
  \/ ParseFails
  \/ SelectTask
  \/ CommitInterruptedDone
  \/ AgentWorks
  \/ AgentReturns
  \/ AppendDone
  \/ UpdateSessionDone
  \/ CommitDone
  \/ SleepDone
  \/ Cleanup
  \/ Summary
  \/ Signal
  \/ DefaultSigint
  \/ Relaunch

Spec == Init /\ [][Next]_vars

(***************************************************************************)
(* One run on a fresh workspace, for every kind of service failure          *)
(***************************************************************************)
\* the working tree may hold uncommitted changes when the run starts
InitOnce ==
  /\ serviceFailure \in ApiErrorTypes
  /\ dirty \in BOOLEAN
  /\ FreshWorkspace

\* runLoop is called on the fresh workspace
StartFirstRun == outcome = "none" /\ StartRun

NextOnce ==
  \/ StartFirstRun
  \/ Setup
  \/ LoopTop
  \/ ParseFails
  \/ SelectTask
  \/ CommitInterruptedDone
  \/ AgentWorks
  \/ AgentReturns
  \/ AppendDone
  \/ UpdateSessionDone
  \/ CommitDone
  \/ SleepDone
  \/ Cleanup
  \/ Summary
  \/ Signal
  \/ DefaultSigint
  \/ Relaunch

SpecOnce == InitOnce /\ [][NextOnce]_vars

(***************************************************************************)
(* One run on a fresh workspace whose agent calls fail in every way         *)
(***************************************************************************)
\* the agent call resolves with any result, whatever its kind and usage
AgentReturnsAny == AgentReturnsFrom(ClaudeResults)

NextFailure ==
  \/ StartFirstRun
  \/ Setup
  \/ LoopTop
  \/ ParseFails
  \/ SelectTask
  \/ CommitInterruptedDone
  \/ AgentWorks
  \/ AgentReturnsAny
  \/ AppendDone
  \/ UpdateSessionDone
  \/ CommitDone
  \/ SleepDone
  \/ Cleanup
  \/ Summary
  \/ Signal
  \/ DefaultSigint
  \/ Relaunch

\* serviceFailure is not read by AgentReturnsAny and keeps one value
InitFailure ==
  /\ serviceFailure = "rate_limit"
  /\ dirty \in BOOLEAN
  /\ FreshWorkspace

SpecFailure == InitFailure /\ [][NextFailure]_vars

(***************************************************************************)
(* One run while the task document is edited from outside                   *)
(***************************************************************************)
\* someone other than the loop rewrites the status line of a task while the run is
\* under way
OperatorEdits ==
  /\ pc \notin {"idle", "exited"}
  /\ \E k \in DOMAIN doc, status \in {"pending", "done"} :
       /\ doc[k].status # status
       /\ doc' = SetStatus(doc, doc[k].id, status)
  /\ dirty' = TRUE
  /\ UNCHANGED <<serviceFailure, gitStatus, ledgerDocument, invocation, ledger, session, lastCommit, pc, shutdown, runConfig, i,
                 sessionTokens, sessionCost, hasInterruptedWork, interruptedDuringTask, iterLocals,
                 invoked, outcome, stoppedMessage>>

NextEdited ==
  \/ StartFirstRun
  \/ Setup
  \/ LoopTop
  \/ ParseFails
  \/ SelectTask
  \/ CommitInterruptedDone
  \/ AgentWorks
  \/ AgentReturns
  \/ AppendDone
  \/ UpdateSessionDone
  \/ CommitDone
  \/ SleepDone
  \/ Cleanup
  \/ Summary
  \/ Signal
  \/ DefaultSigint
  \/ Relaunch
  \/ OperatorEdits

SpecEdited == InitFailure /\ [][NextEdited]_vars

(***************************************************************************)
(* One run in which every awaited call returns                              *)
(***************************************************************************)
\* every await of runLoop returns: reading the task document returns or throws,
\* the agent call resolves, the file and git calls and the sleep return; signals
\* and the agent's edits may or may not happen
AwaitsReturn ==
  /\ WF_vars(StartFirstRun)
  /\ WF_vars(Setup)
  /\ WF_vars(LoopTop)
  /\ WF_vars(ParseFails \/ SelectTask)
  /\ WF_vars(CommitInterruptedDone)
  /\ WF_vars(AgentReturns)
  /\ WF_vars(AppendDone)
  /\ WF_vars(UpdateSessionDone)
  /\ WF_vars(CommitDone)
  /\ WF_vars(SleepDone)
  /\ WF_vars(Cleanup)
  /\ WF_vars(Summary)

SpecTermination == InitFailure /\ [][NextOnce]_vars /\ AwaitsReturn

(***************************************************************************)
(* getNextTask on arbitrary task documents                                 *)
(***************************************************************************)
\* dependency lists of the documents built by AddTask: none, an existing or own id,
\* an id of no task, or both
DependencyLists == SUBSET {"TASK-1", GhostId}

DocumentIds(d) == {d[k].id : k \in DOMAIN d}

EmptyWorkspace ==
  /\ serviceFailure = "rate_limit"
  /\ doc = <<>>
  /\ ledger = NoFile
  /\ session = NoSession
  /\ dirty = FALSE
  /\ InitProcess
  /\ InitLocals

\* a task block is added at the end of the task document
AddTask ==
  /\ Len(doc) < MaxTasks
  /\ \E id \in TaskIds \ DocumentIds(doc), st \in TaskStatus, pr \in TaskPriority,
        deps \in DependencyLists :
       doc' = Append(doc, [id |-> id, status |-> st, priority |-> pr, dependencies |-> deps])
  /\ UNCHANGED <<serviceFailure, gitStatus, ledgerDocument, invocation, ledger, session, dirty, lastCommit, pc, shutdown,
                 runConfig,
                 i, sessionTokens, sessionCost, hasInterruptedWork, interruptedDuringTask, iterLocals,
                 invoked, outcome, stoppedMessage>>

\* getNextTask(parseRequirements(...)) is evaluated on the document
CallGetNextTask ==
  /\ requirements' = doc
  /\ nextTask' = getNextTask(doc)
  /\ UNCHANGED <<serviceFailure, gitStatus, ledgerDocument, invocation, files, lastCommit, pc, shutdown, runConfig, i,
                 sessionTokens, sessionCost,
                 hasInterruptedWork, interruptedDuringTask, result, iterationLog,
                 stopDuringCall, stopSeen, invoked, outcome, stoppedMessage>>

NextSelect == AddTask \/ CallGetNextTask

SpecSelect == EmptyWorkspace /\ [][NextSelect]_vars

(***************************************************************************)
(* appendIteration called with arbitrary records                           *)
(***************************************************************************)
\* the records handed to appendIteration in SpecLedger
LedgerInputs(iter) ==
  {[iteration |-> iter, taskCompleted |-> t, exitStatus |-> st,
    errorType |-> IF st = "error" THEN "task_failure" ELSE "undefined",
    tokenUsage |-> NoUsage] :
     t \in {"null", "TASK-1", "TASK-2"}, st \in ExitStatus}

\* appendIteration(progressPath, totalTasks, record)
CallAppendIteration ==
  /\ Len(LedgerIterations) < MaxAppends
  /\ \E totalTasks \in 0..2, rec \in LedgerInputs(Len(LedgerIterations) + 1) :
       /\ ledger' = appendIteration(ledger, totalTasks, rec)
       /\ iterationLog' = rec
  /\ UNCHANGED <<serviceFailure, gitStatus, ledgerDocument, invocation, doc, session, dirty, lastCommit, pc, shutdown,
                 runConfig, i,
                 sessionTokens, sessionCost, hasInterruptedWork, interruptedDuringTask, requirements,
                 nextTask, result, stopDuringCall, stopSeen, invoked, outcome,
                 stoppedMessage>>

NextLedger == CallAppendIteration

SpecLedger == EmptyWorkspace /\ [][NextLedger]_vars

(***************************************************************************)
(* getUncommittedChanges on arbitrary status output                        *)
(***************************************************************************)
\* git reports one more changed path
AddStatusLine ==
  /\ ~uncommitted.called
  /\ Len(statusOutput) < MaxLines
  /\ \E code \in StatusCodes, path \in ChangedPaths :
       statusOutput' = Append(statusOutput, StatusLine(code, path))
  /\ UNCHANGED <<serviceFailure, ledgerDocument, invocation, uncommitted, files, lastCommit, pc, shutdown, runConfig, i,
                 sessionTokens, sessionCost, hasInterruptedWork, interruptedDuringTask,
                 iterLocals, invoked, outcome, stoppedMessage>>

\* getUncommittedChanges(workspace, ['.devloop/'])
CallGetUncommittedChanges ==
  /\ ~uncommitted.called
  /\ uncommitted' = getUncommittedChanges(statusOutput, IgnoredByRunLoop)
  /\ UNCHANGED <<serviceFailure, ledgerDocument, invocation, statusOutput, files, lastCommit, pc, shutdown, runConfig, i,
                 sessionTokens, sessionCost, hasInterruptedWork, interruptedDuringTask,
                 iterLocals, invoked, outcome, stoppedMessage>>

NextStatus == AddStatusLine \/ CallGetUncommittedChanges

SpecStatus == EmptyWorkspace /\ [][NextStatus]_vars

(***************************************************************************)
(* The ledger document written and read back                               *)
(***************************************************************************)
\* the times new Date() returns
Times == {1, 2}

\* result.error of a failed call: two lines
ErrorDetails == {<<"tests", " ", "failed", "\n", "exit", " ", "1">>}

\* what a record says about the error of its call: nothing, or the error type and
\* the error text, as runLoop sets them together
ErrorOfCall ==
  {[errorType |-> "undefined", errorDetail |-> <<>>]}
  \cup {[errorType |-> "task_failure", errorDetail |-> <<d>>] : d \in ErrorDetails}

\* IterationLog values: every exit status with and without usage and with and without
\* the error fields
IterationLogs(iter) ==
  {[iteration |-> iter, timestamp |-> iter,
    taskCompleted |-> IF st = "success" THEN "TASK-1" ELSE "null",
    summary |-> <<"Ran", " ", "task">>, duration |-> "3s", exitStatus |-> st,
    tokenUsage |-> u, errorType |-> e.errorType, errorDetail |-> e.errorDetail] :
     st \in ExitStatus, u \in {<<>>, <<UsageOfCall>>}, e \in ErrorOfCall}

\* appendIteration(progressPath, totalTasks, record): the ledger is read, the record
\* pushed and the ledger written
CallAppendIterationOnDocument ==
  /\ IF document = NoFile THEN TRUE ELSE Len(document.blocks) < MaxBlocks
  /\ \E totalTasks \in 1..2, now \in Times, later \in Times :
       \E rec \in IterationLogs(IF document = NoFile THEN 1 ELSE Len(document.blocks) + 1) :
         /\ now <= later
         /\ handed' = <<appendedProgress(document, now, totalTasks, rec)>>
         /\ document' = writeProgressDocument(later, handed'[1])
  /\ reread' = <<>>
  /\ UNCHANGED <<serviceFailure, gitStatus, invocation, files, lastCommit, pc, shutdown,
                 runConfig, i, sessionTokens, sessionCost, hasInterruptedWork,
                 interruptedDuringTask, iterLocals, invoked, outcome, stoppedMessage>>

\* readProgress(progressPath)
CallReadProgress ==
  /\ document # NoFile
  /\ reread = <<>>
  /\ reread' = readProgressDocument(document)
  /\ UNCHANGED <<serviceFailure, gitStatus, invocation, handed, document, files, lastCommit,
                 pc, shutdown, runConfig, i, sessionTokens, sessionCost, hasInterruptedWork,
                 interruptedDuringTask, iterLocals, invoked, outcome, stoppedMessage>>

NextDocument == CallAppendIterationOnDocument \/ CallReadProgress

SpecDocument == EmptyWorkspace /\ [][NextDocument]_vars

(***************************************************************************)
(* appendIteration while the task document changes                         *)
(***************************************************************************)
\* a task block is added at the end of the task document, or the last one is removed
EditDocument ==
  /\ \/ /\ Len(doc) < MaxTasks
        /\ \E id \in TaskIds \ DocumentIds(doc) :
             doc' = Append(doc, [id |-> id, status |-> "pending", priority |-> "medium",
                                 dependencies |-> {}])
     \/ /\ Len(doc) > 0
        /\ doc' = SubSeq(doc, 1, Len(doc) - 1)
  /\ UNCHANGED <<serviceFailure, gitStatus, ledgerDocument, invocation, ledger, session, dirty,
                 lastCommit, pc, shutdown, runConfig, i, sessionTokens, sessionCost,
                 hasInterruptedWork, interruptedDuringTask, iterLocals, invoked, outcome,
                 stoppedMessage>>

\* the task document is parsed and appendIteration(progressPath,
\* requirements.tasks.length, record) is called, as runLoop does
CallAppendIterationForDocument ==
  /\ Len(LedgerIterations) < MaxAppends
  /\ requirements' = doc
  /\ \E rec \in LedgerInputs(Len(LedgerIterations) + 1) :
       /\ ledger' = appendIteration(ledger, Len(doc), rec)
       /\ iterationLog' = rec
  /\ UNCHANGED <<serviceFailure, gitStatus, ledgerDocument, invocation, doc, session, dirty,
                 lastCommit, pc, shutdown, runConfig, i, sessionTokens, sessionCost,
                 hasInterruptedWork, interruptedDuringTask, nextTask, result, stopDuringCall,
                 stopSeen, invoked, outcome, stoppedMessage>>

NextTotals == EditDocument \/ CallAppendIterationForDocument

SpecTotals == EmptyWorkspace /\ [][NextTotals]_vars

(***************************************************************************)
(* One agent invocation with its output read in chunks                     *)
(***************************************************************************)
\* lines of the agent's stream-json output: a tool use, a result with usage whose
\* text has a two-byte character, a result flagged as an error, text that is not
\* JSON, an event of another type, and a blank line
EventLines ==
  {<<"{", "assistant", "Read", "é", ".ts", "}">>,
   <<"{", "result", "is_error:false", "usage", "caf", "é", "}">>,
   <<"{", "result", "is_error:true", "nousage", "API", " ", "Error", "}">>,
   <<"not json">>,
   <<"{", "system", "}">>,
   <<" ">>}

\* the line is a result event
IsResultLine(line) == isJson(line) /\ parseEvent(line).type = "result"

RECURSIVE joinLines(_, _)
\* the lines, each ended by a line break, the last one only if the output is terminated
joinLines(lines, terminated) ==
  IF lines = <<>> THEN <<>>
  ELSE IF Len(lines) = 1 THEN Head(lines) \o (IF terminated THEN <<"\n">> ELSE <<>>)
  ELSE Head(lines) \o <<"\n">> \o joinLines(Tail(lines), terminated)

\* what the agent writes to stdout: at most MaxStream lines, at most one of them the
\* final result event
StdoutTexts ==
  {joinLines(lines, terminated) :
     lines \in {ls \in UNION {[1..n -> EventLines] : n \in 0..MaxStream} :
                  Cardinality({k \in DOMAIN ls : IsResultLine(ls[k])}) <= 1},
     terminated \in BOOLEAN}

\* what the agent or the shell writes to stderr
StderrTexts ==
  {<<"Rate", " ", "limit", " ", "exceeded", "\n">>,
   <<"429", " ", "then", " ", "503">>,
   <<"400", " ", "token", " ", "limit">>,
   <<"400", " ", "bad", " ", "request">>,
   <<"503", " ", "overload", "ed">>,
   <<"connect", " ", "timeout", " ", "401">>,
   <<"ECONNREFUSED">>,
   <<"network", " ", "api", " ", "error">>,
   <<"API", " ", "Error">>,
   <<"usage", " ", "limit", " ", "reached">>,
   <<"api", " ", "usage", " ", "limit">>}

\* err.message of a spawn failure
SpawnErrorMessages == {<<"spawn", " ", "EAGAIN">>, <<"spawn", " ", "timeout">>}

\* exit codes of the child process
ExitCodes == {0, 1}

\* the locals of invokeClaudeAutomated the handlers share
Locals ==
  [lineBuffer |-> lineBuffer, resultText |-> resultText, tokenUsage |-> tokenUsage,
   isError |-> isError, activities |-> activities]

\* the locals take the values a handler leaves
SetLocals(st) ==
  /\ lineBuffer' = st.lineBuffer
  /\ resultText' = st.resultText
  /\ tokenUsage' = st.tokenUsage
  /\ isError' = st.isError
  /\ activities' = st.activities

\* spawn('claude', args): the child starts and will write some output
Spawn ==
  /\ child = "none"
  /\ child' = "running"
  /\ pending' \in {encode(text) : text \in StdoutTexts}
  /\ UNCHANGED <<delivered, closeCode, stderr, lineBuffer, resultText, tokenUsage, isError,
                 activities, claudeResult>>
  /\ UNCHANGED <<serviceFailure, gitStatus, ledgerDocument, files, lastCommit, pc, shutdown,
                 runConfig, i, sessionTokens, sessionCost, hasInterruptedWork,
                 interruptedDuringTask, iterLocals, invoked, outcome, stoppedMessage>>

\* child.on('error'): the process could not be spawned
SpawnError ==
  /\ child = "none"
  /\ child' = "failed"
  /\ \E message \in SpawnErrorMessages : claudeResult' = <<resolvedOnError(message)>>
  /\ UNCHANGED <<pending, delivered, closeCode, stderr, lineBuffer, resultText, tokenUsage,
                 isError, activities>>
  /\ UNCHANGED <<serviceFailure, gitStatus, ledgerDocument, files, lastCommit, pc, shutdown,
                 runConfig, i, sessionTokens, sessionCost, hasInterruptedWork,
                 interruptedDuringTask, iterLocals, invoked, outcome, stoppedMessage>>

\* child.stdout.on('data'): the next bytes of the output arrive as one chunk
StdoutData ==
  /\ child = "running"
  /\ pending # <<>>
  /\ \E n \in 1..Len(pending) :
       LET chunk == SubSeq(pending, 1, n)
       IN /\ SetLocals(onData(Locals, chunk))
          /\ delivered' = delivered \o chunk
          /\ pending' = SubSeq(pending, n + 1, Len(pending))
  /\ UNCHANGED <<child, closeCode, stderr, claudeResult>>
  /\ UNCHANGED <<serviceFailure, gitStatus, ledgerDocument, files, lastCommit, pc, shutdown,
                 runConfig, i, sessionTokens, sessionCost, hasInterruptedWork,
                 interruptedDuringTask, iterLocals, invoked, outcome, stoppedMessage>>

\* child.stderr.on('data')
StderrData ==
  /\ child = "running"
  /\ stderr = <<>>
  /\ stderr' \in StderrTexts
  /\ UNCHANGED <<pending, delivered, child, closeCode, lineBuffer, resultText, tokenUsage,
                 isError, activities, claudeResult>>
  /\ UNCHANGED <<serviceFailure, gitStatus, ledgerDocument, files, lastCommit, pc, shutdown,
                 runConfig, i, sessionTokens, sessionCost, hasInterruptedWork,
                 interruptedDuringTask, iterLocals, invoked, outcome, stoppedMessage>>

\* child.on('close'): all output has been read and the promise resolves
Close ==
  /\ child = "running"
  /\ pending = <<>>
  /\ child' = "closed"
  /\ \E exit \in ExitCodes :
       /\ closeCode' = exit
       /\ SetLocals(onCloseBuffer(Locals))
       /\ claudeResult' = <<resolvedOnClose(onCloseBuffer(Locals), exit, stderr)>>
  /\ UNCHANGED <<pending, delivered, stderr>>
  /\ UNCHANGED <<serviceFailure, gitStatus, ledgerDocument, files, lastCommit, pc, shutdown,
                 runConfig, i, sessionTokens, sessionCost, hasInterruptedWork,
                 interruptedDuringTask, iterLocals, invoked, outcome, stoppedMessage>>

NextStream == Spawn \/ SpawnError \/ StdoutData \/ StderrData \/ Close

SpecStream == EmptyWorkspace /\ [][NextStream]_vars

(***************************************************************************)
(* Properties                                                              *)
(***************************************************************************)
\* the task of the selection belongs to the parsed document
Selected == nextTask # NoTask

\* the ids of the tasks of a document that are done
DoneIds(d) == {d[k].id : k \in {m \in DOMAIN d : d[m].status = "done"}}

\* positions of the pending tasks whose every dependency is the id of a done task
Runnable(d) ==
  {k \in DOMAIN d : d[k].status = "pending" /\ d[k].dependencies \subseteq DoneIds(d)}

\* C1: getNextTask returns null or a pending task of the document all of whose
\* dependency ids belong to tasks with status done; never a task with an unmet
\* dependency (on a pending, in-progress or nonexistent task)
C1_NoUnmetDependency ==
  Selected =>
    /\ \E k \in DOMAIN requirements : requirements[k] = nextTask
    /\ nextTask.status = "pending"
    /\ \A dep \in nextTask.dependencies :
         \E m \in DOMAIN requirements :
           requirements[m].id = dep /\ requirements[m].status = "done"

\* a task is selected while a pending task that sorts before it is held back by
\* an unmet dependency
C1_Witness ==
  /\ Selected
  /\ \E k \in DOMAIN requirements :
       /\ requirements[k].status = "pending"
       /\ compareTasks(requirements[k], nextTask) < 0
       /\ ~(requirements[k].dependencies \subseteq DoneIds(requirements))

\* rank of a priority: high 0, medium 1, low 2
Rank(p) == IF p = "high" THEN 0 ELSE IF p = "medium" THEN 1 ELSE 2

\* s is lexicographically smaller than or equal to t
LexLeq(s, t) == CompareChars(IdChars(s), IdChars(t)) <= 0

\* the orderings of a document
Orderings(d) ==
  {[k \in DOMAIN d |-> d[q[k]]] :
     q \in {f \in [DOMAIN d -> DOMAIN d] : \A a, b \in DOMAIN d : a # b => f[a] # f[b]}}

\* C2: the result is the runnable task of lowest priority rank and, among equal
\* ranks, of lexicographically smallest id; it is null when nothing is runnable and
\* is the same for every order of the tasks in the document
C2_MinimalRunnable ==
  /\ IF Runnable(requirements) = {} THEN nextTask = NoTask
     ELSE /\ \E k \in Runnable(requirements) : requirements[k] = nextTask
          /\ \A k \in Runnable(requirements) :
               \/ Rank(nextTask.priority) < Rank(requirements[k].priority)
               \/ /\ Rank(nextTask.priority) = Rank(requirements[k].priority)
                  /\ LexLeq(nextTask.id, requirements[k].id)
  /\ \A d \in Orderings(requirements) : getNextTask(d) = nextTask

\* two runnable tasks of equal priority, and the one later in the document wins
\* because "TASK-10" sorts before "TASK-2"
C2_Witness ==
  /\ Selected
  /\ \E k, m \in Runnable(requirements) :
       /\ k < m
       /\ requirements[k].priority = requirements[m].priority
       /\ requirements[k].id = "TASK-2"
       /\ requirements[m].id = "TASK-10"
       /\ nextTask = requirements[m]

\* the completed count of the ledger file, 0 when there is no file
CompletedOf(file) == IF file = NoFile THEN 0 ELSE file.completed

\* positions of the persisted records that are a success with a task
SuccessWithTask ==
  {k \in DOMAIN LedgerIterations :
     LedgerIterations[k].exitStatus = "success" /\ LedgerIterations[k].taskCompleted # "none"}

\* C4: after any sequence of appendIteration calls starting from no ledger, the
\* persisted completed equals the number of records with exitStatus success and a
\* task, and the persisted remaining equals totalTasks - completed
C4_CompletedCount ==
  ledger # NoFile =>
    /\ ledger.completed = Cardinality(SuccessWithTask)
    /\ ledger.remaining = ledger.totalTasks - ledger.completed

\* a ledger holding a counted success, a success without a task and an error
C4_Witness ==
  /\ ledger # NoFile
  /\ ledger.completed = 1
  /\ \E k \in DOMAIN LedgerIterations :
       LedgerIterations[k].exitStatus = "success" /\ LedgerIterations[k].taskCompleted = "none"
  /\ \E k \in DOMAIN LedgerIterations : LedgerIterations[k].exitStatus = "error"

\* the record appended last
LastRecord == LedgerIterations[Len(LedgerIterations)]

\* the ledger holds a record with iteration number n
HasRecord(n) == \E k \in DOMAIN LedgerIterations : LedgerIterations[k].iteration = n

\* C3: if a stop signal arrives while an agent call is in flight, the record
\* appended for that call has exitStatus interrupted and no task, whatever the
\* agent reports, and the completed count of the ledger is not incremented
C3_InterruptedIntegrity ==
  [][/\ (stopDuringCall /\ pc = "invoking" /\ pc' = "appending") =>
          /\ iterationLog'.exitStatus = "interrupted"
          /\ iterationLog'.taskCompleted = "null"
     /\ (stopDuringCall /\ pc = "appending" /\ pc' = "updatingSession") =>
          /\ ledger' # NoFile
          /\ ledger'.iterations[Len(ledger'.iterations)].iteration = i
          /\ ledger'.iterations[Len(ledger'.iterations)].exitStatus = "interrupted"
          /\ ledger'.iterations[Len(ledger'.iterations)].taskCompleted = "none"
          /\ CompletedOf(ledger') = CompletedOf(ledger)]_vars

\* the stop arrived during the call, the agent reported success and marked its task
\* done, and the record was appended as interrupted
C3_Witness ==
  /\ pc = "updatingSession"
  /\ stopDuringCall
  /\ result.success
  /\ \E k \in DOMAIN doc : doc[k].id = nextTask.id /\ doc[k].status = "done"
  /\ LastRecord.exitStatus = "interrupted"

\* C5: a run starts at iteration 1 without a ledger and at iterations.length + 1
\* otherwise, and across runs the k-th record of the ledger carries iteration
\* number k
C5_IterationNumbering ==
  /\ \A k \in DOMAIN LedgerIterations : LedgerIterations[k].iteration = k
  /\ (pc = "top" /\ i = startIteration) => startIteration = Len(LedgerIterations) + 1
  /\ (pc = "top" /\ i = startIteration /\ ledger = NoFile) => startIteration = 1

\* a second run resumed after an interrupted or failed first run and appended record 2
C5_Witness ==
  /\ pc = "updatingSession"
  /\ startIteration = 2
  /\ Len(LedgerIterations) = 2
  /\ LedgerIterations[1].exitStatus \in {"interrupted", "error"}

\* C6: the ledger append of iteration N completes before the checkpoint commit of N
\* is attempted, a commit of N contains the record of N, and the commit call of N
\* has returned before the selection of iteration N+1 begins
C6_AppendCommitOrder ==
  /\ pc = "committing" => HasRecord(i)
  /\ (lastCommit.kind = "iteration" /\ lastCommit.committed) =>
       lastCommit.iteration \in lastCommit.iterations
  /\ (pc \in {"parsing", "committingInterrupted", "invoking"} /\ i > startIteration
        /\ ~config.dryRun) =>
       (lastCommit.kind = "iteration" /\ lastCommit.iteration = i - 1)

\* the second iteration of a run is selecting its task after the commit of the first
C6_Witness ==
  /\ pc = "parsing"
  /\ i = startIteration + 1
  /\ ~config.dryRun
  /\ lastCommit.committed
  /\ lastCommit.iterations = {i - 1}

\* the agent call of this iteration failed with an API-level error kind
ApiFailure == ~result.success /\ result.errorType \in ApiErrorTypes

\* the places of runLoop after appendIteration returned, within the iteration
RecordAppended == pc \in {"updatingSession", "committing", "sleeping", "cleanup", "summary"}

\* C7 as stated: after an agent call failed with an API-level error kind, the record
\* of the iteration has exitStatus error and that kind, and the run halts
C7_Original ==
  ApiFailure =>
    /\ pc \in {"appending", "updatingSession", "committing", "cleanup", "summary"}
    /\ RecordAppended =>
         /\ LastRecord.iteration = i
         /\ LastRecord.exitStatus = "error"
         /\ LastRecord.errorType = result.errorType

\* C7 amended: after an agent call failed with an API-level error kind the run halts
\* without another agent invocation; the record of the iteration has exitStatus
\* error and that kind if no stop had been requested when the call returned, and
\* exitStatus interrupted without an error kind otherwise
C7_ApiErrorHalts ==
  ApiFailure =>
    /\ pc \in {"appending", "updatingSession", "committing", "cleanup", "summary"}
    /\ invoked = i - startIteration + 1
    /\ (RecordAppended /\ ~stopSeen) =>
         /\ LastRecord.iteration = i
         /\ LastRecord.exitStatus = "error"
         /\ LastRecord.errorType = result.errorType
         /\ LastRecord.taskCompleted = "none"
    /\ (RecordAppended /\ stopSeen) =>
         /\ LastRecord.iteration = i
         /\ LastRecord.exitStatus = "interrupted"
         /\ LastRecord.errorType = "undefined"

\* the loop was left after a network error was recorded, with iterations to spare
C7_Witness ==
  /\ ApiFailure
  /\ result.errorType = "network_error"
  /\ ~stopSeen
  /\ pc = "cleanup"
  /\ outcome = "apiError"
  /\ i < endIteration
  /\ LastRecord.errorType = "network_error"

\* C8: when an agent call fails with an API-level error, the run halts only after
\* the checkpoint commit of that iteration has been attempted
C8_CheckpointBeforeHalt ==
  (outcome = "apiError" /\ pc \in {"cleanup", "summary"}) =>
    (lastCommit.kind = "iteration" /\ lastCommit.iteration = i)

\* the agent call of this iteration failed with kind task_failure
TaskFailure == ~result.success /\ result.errorType = "task_failure"

\* what holds of an iteration whose agent call failed with task_failure: the record
\* is an error without a task, the commit was attempted before the loop moved on,
\* and only a hook failure leaves the loop
TaskFailureRecorded ==
  /\ pc \in {"appending", "updatingSession", "committing", "sleeping", "cleanup", "summary"}
  /\ RecordAppended =>
       /\ LastRecord.iteration = i
       /\ LastRecord.exitStatus = "error"
       /\ LastRecord.taskCompleted = "none"
  /\ pc \in {"sleeping", "cleanup", "summary"} =>
       (lastCommit.kind = "iteration" /\ lastCommit.iteration = i)
  /\ pc \in {"cleanup", "summary"} => lastCommit.hookFailure
  /\ pc = "sleeping" => ~lastCommit.hookFailure

\* C9 as stated: every agent call that failed with task_failure is recorded as an
\* error, committed and followed by the next iteration unless a hook failure occurred
C9_Original == TaskFailure => TaskFailureRecorded

\* C9 amended: when an agent call fails with task_failure and no stop had been
\* requested when the call returned, the record is an error without a task, a commit
\* is attempted and, unless it reports a hook failure, the loop moves to iteration
\* i + 1, which starts unless the iteration or token budget is exhausted or a stop
\* is requested
C9_TaskFailureContinues ==
  /\ []((TaskFailure /\ ~stopSeen) => TaskFailureRecorded)
  /\ [][/\ (pc = "sleeping" /\ pc' = "top") => i' = i + 1
        /\ (pc = "top" /\ pc' # "top" /\ i <= endIteration /\ ~stopRequested
              /\ (config.tokenLimit = 0 \/ sessionTokens < config.tokenLimit)) =>
             pc' = "parsing"]_vars

\* the agent is invoked again in the iteration after a recorded task failure
C9_Witness ==
  /\ pc = "invoking"
  /\ i = startIteration + 1
  /\ LastRecord.iteration = i - 1
  /\ LastRecord.exitStatus = "error"
  /\ LastRecord.errorType = "task_failure"
  /\ lastCommit.iteration = i - 1

\* C10: if the parsed task document has no pending task, the run ends as completed,
\* not blocked, without invoking the agent and without appending a ledger record
C10_CompletedNotBlocked ==
  /\ [](outcome = "completed" =>
          /\ pc \in {"cleanup", "summary", "idle"}
          /\ SelectSeq(requirements, IsPending) = <<>>
          /\ pc \in {"cleanup", "summary"} => ~HasRecord(i))
  /\ [][(pc = "parsing" /\ SelectSeq(doc, IsPending) = <<>> /\ pc' \notin {"parsing", "exited"}
           /\ outcome' # "parseError") =>
          /\ pc' = "cleanup"
          /\ outcome' = "completed"
          /\ ledger' = ledger
          /\ invoked' = invoked]_vars

\* a run found one task done and the other in progress and ended as completed
C10_Witness ==
  /\ outcome = "completed"
  /\ pc = "cleanup"
  /\ \E k \in DOMAIN requirements : requirements[k].status = "done"
  /\ \E k \in DOMAIN requirements : requirements[k].status = "in-progress"

\* the run is between the call of runLoop and its return
RunActive == pc \notin {"idle", "exited"}

\* C11: if pending tasks exist but none has all its dependencies done (unmet, cyclic,
\* self-referential or nonexistent ids), getNextTask returns null and the run ends
\* as blocked: the agent is not invoked, no record is appended and the selection is
\* not made again in that run
C11_BlockedEndsRun ==
  /\ []((SelectSeq(requirements, IsPending) # <<>> /\ Runnable(requirements) = {}) =>
          getNextTask(requirements) = NoTask)
  /\ []((outcome = "blocked" /\ RunActive) =>
          /\ pc \in {"cleanup", "summary"}
          /\ pc = "cleanup" => nextTask = NoTask /\ SelectSeq(requirements, IsPending) # <<>>)
  /\ [][(pc = "parsing" /\ SelectSeq(doc, IsPending) # <<>> /\ Runnable(doc) = {}
           /\ pc' \notin {"parsing", "exited"} /\ outcome' # "parseError") =>
          /\ pc' = "cleanup"
          /\ outcome' = "blocked"
          /\ nextTask' = NoTask
          /\ ledger' = ledger
          /\ invoked' = invoked]_vars

\* a run ended as blocked on two pending tasks that depend on each other
C11_Witness ==
  /\ outcome = "blocked"
  /\ pc = "cleanup"
  /\ \E k, m \in DOMAIN requirements :
       /\ k # m
       /\ IsPending(requirements[k]) /\ IsPending(requirements[m])
       /\ requirements[k].id \in requirements[m].dependencies
       /\ requirements[m].id \in requirements[k].dependencies

\* C12: within one run the SIGINT listener escalates in three levels: the first
\* signal only sets stopRequested, the second only sets forceStopRequested, and the
\* listener ends the process on the third signal and never before; forceStopRequested
\* implies stopRequested in every reachable state
C12_ThreeLevelEscalation ==
  /\ [](forceStopRequested => stopRequested)
  /\ [][/\ (~stopRequested /\ stopRequested') =>
             (pc' = pc /\ ~forceStopRequested /\ ~forceStopRequested' /\ outcome' = outcome)
        /\ (~forceStopRequested /\ forceStopRequested') =>
             (stopRequested /\ stopRequested' /\ pc' = pc /\ outcome' = outcome)
        /\ (handlerInstalled /\ pc # "exited" /\ pc' = "exited") =>
             (stopRequested /\ forceStopRequested /\ outcome' = "forceExit")]_vars

\* the listener has ended the process of a run after both flags were set
C12_Witness ==
  /\ pc = "exited"
  /\ outcome = "forceExit"
  /\ handlerInstalled
  /\ stopRequested
  /\ forceStopRequested

\* the order in which runLoop passes its awaits once a stop was requested during the
\* agent call
StopChain(from, to) ==
  \/ from = "invoking" /\ to = "appending"
  \/ from = "appending" /\ to = "updatingSession"
  \/ from = "updatingSession" /\ to = "committing"
  \/ from = "committing" /\ to = "cleanup"
  \/ from = "cleanup" /\ to = "summary"
  \/ from = "summary" /\ to \in {"idle", "exited"}

\* what has happened by the time runLoop reaches a place, for an iteration whose
\* agent call was in flight when the stop was requested
StopBookkeeping ==
  /\ pc \in {"invoking", "appending", "updatingSession", "committing", "cleanup", "summary"}
  /\ pc \in {"updatingSession", "committing", "cleanup", "summary"} =>
       LastRecord.iteration = i
  /\ pc \in {"committing", "cleanup", "summary"} => session \in {NoSession, i}
  /\ pc \in {"cleanup", "summary"} =>
       (lastCommit.kind = "iteration" /\ lastCommit.iteration = i)

\* C13 as stated: after a first SIGINT during the agent call the call is left to
\* return, the iteration is appended, the session updated and a commit attempted, and
\* only then does the run end, without another iteration
C13_Original ==
  /\ [](stopDuringCall => StopBookkeeping)
  /\ [][/\ (pc = "invoking" /\ ~stopRequested /\ stopRequested') =>
             (pc' = "invoking" /\ result' = result)
        /\ (stopDuringCall /\ pc' # pc) =>
             (StopChain(pc, pc') /\ (pc' \notin {"idle", "exited"} => i' = i))]_vars

\* C13 amended: the same, unless two further signals make the listener end the
\* process before the run has ended
C13_CooperativeStop ==
  /\ [](stopDuringCall => StopBookkeeping)
  /\ [][/\ (pc = "invoking" /\ ~stopRequested /\ stopRequested') =>
             (pc' = "invoking" /\ result' = result)
        /\ (stopDuringCall /\ pc' # pc) =>
             \/ StopChain(pc, pc') /\ (pc' \notin {"idle", "exited"} => i' = i)
             \/ forceStopRequested /\ pc' = "exited" /\ outcome' = "forceExit"]_vars

\* the run ended after the interrupted iteration was appended and its commit attempted,
\* with iterations to spare and without a forced exit
C13_Witness ==
  /\ stopDuringCall
  /\ pc = "summary"
  /\ outcome = "interrupted"
  /\ i < endIteration
  /\ LastRecord.iteration = i
  /\ LastRecord.exitStatus = "interrupted"
  /\ lastCommit.iteration = i

\* runLoop is inside the body of its for loop
InLoopBody ==
  pc \in {"parsing", "committingInterrupted", "invoking", "appending", "updatingSession",
          "committing", "sleeping"}

\* C14: a run executes at most maxIterations iterations, numbered startIteration ..
\* startIteration + maxIterations - 1, and so invokes the agent at most maxIterations
\* times, whatever the outcomes of the iterations
C14_IterationBudget ==
  (RunActive /\ pc # "starting") =>
    /\ invoked <= config.maxIterations
    /\ InLoopBody =>
         /\ startIteration <= i
         /\ i <= startIteration + config.maxIterations - 1
         /\ invoked <= i - startIteration + 1
    /\ Len(LedgerIterations) <= startIteration + config.maxIterations - 1
    /\ \A k \in DOMAIN LedgerIterations :
         LedgerIterations[k].iteration <= startIteration + config.maxIterations - 1

\* a run of more than one iteration used up its iterations, each with an agent call
C14_Witness ==
  /\ pc = "cleanup"
  /\ outcome = "exhausted"
  /\ config.maxIterations > 1
  /\ invoked = config.maxIterations
  /\ i = startIteration + config.maxIterations

\* the record was appended by the current run
IsRunRecord(record) == record.iteration >= startIteration

RECURSIVE SumTokens(_)
\* the sum of totalTokens over the records that carry a usage
SumTokens(records) ==
  IF records = <<>> THEN 0
  ELSE (IF Head(records).tokens = NoUsage THEN 0 ELSE Head(records).tokens)
       + SumTokens(Tail(records))

\* C15: if a token limit is configured, no agent invocation starts in an iteration at
\* whose top the sum of totalTokens over the agent calls of the current run is greater
\* than or equal to the limit; usage recorded by earlier runs does not count
C15_TokenLimit ==
  /\ []((config.tokenLimit # 0 /\ pc \in {"parsing", "committingInterrupted", "invoking"}) =>
          sessionTokens < config.tokenLimit)
  /\ []((pc = "top" /\ ~config.dryRun) =>
          sessionTokens = SumTokens(SelectSeq(LedgerIterations, IsRunRecord)))
  /\ [][(pc = "top" /\ config.tokenLimit # 0 /\ sessionTokens >= config.tokenLimit
           /\ pc' # pc) =>
          (pc' = "cleanup" /\ invoked' = invoked /\ ledger' = ledger)]_vars

\* a later run invokes the agent although the usage recorded by an earlier run alone
\* reaches the limit
C15_EarlierRunsNotCounted ==
  /\ pc = "invoking"
  /\ config.tokenLimit # 0
  /\ startIteration > 1
  /\ sessionTokens = 0
  /\ SumTokens(LedgerIterations) >= config.tokenLimit

\* a run was ended by the token guard with iterations to spare
C15_Witness ==
  /\ pc = "cleanup"
  /\ outcome = "tokenLimit"
  /\ i <= endIteration
  /\ sessionTokens >= config.tokenLimit

\* C16: if a cost limit is given, the loop stops before starting the next iteration
\* once the cumulative cost of the agent calls of the current run meets or exceeds it
C16_CostLimitStops ==
  (costLimitOption # 0 /\ pc \in {"parsing", "committingInterrupted", "invoking"}) =>
    sessionCost < costLimitOption

C18_NoGitNeverHalts ==
  /\ []((RunActive /\ ~gitAvailable) =>
          /\ ~hasInterruptedWork
          /\ pc # "committingInterrupted"
          /\ lastCommit.kind \in {"none", "iteration"}
          /\ ~lastCommit.committed
          /\ ~lastCommit.hookFailure
          /\ outcome \notin {"hookFailure", "interruptedWorkFailed"})
  /\ [][(~gitAvailable /\ pc = "committing" /\ pc' \notin {pc, "exited"}) =>
          /\ pc' = afterCommit(iterationLog,
                               [committed |-> TRUE, hookFailure |-> FALSE, error |-> NoError])
          /\ ledger' = ledger
          /\ doc' = doc]_vars

\* without git a run started on a changed workspace is in the second iteration, its
\* first one left uncommitted
C18_Witness ==
  /\ ~gitAvailable
  /\ pc = "invoking"
  /\ i = startIteration + 1
  /\ dirty
  /\ lastCommit.kind = "iteration"
  /\ lastCommit.iteration = i - 1
  /\ ~lastCommit.committed

\* C19: uncommitted changes detected at startup are committed as interrupted work
\* before the first agent invocation of the run and at most once per run; if that
\* commit does not succeed, the run ends without an agent invocation and without a
\* ledger record
C19_InterruptedWorkFirst ==
  /\ [](hasInterruptedWork => (gitAvailable /\ invoked = 0))
  /\ [](pc = "committingInterrupted" =>
          /\ hasInterruptedWork
          /\ lastCommit.kind = "none"
          /\ i = startIteration
          /\ invoked = 0)
  /\ []((outcome = "interruptedWorkFailed" /\ RunActive) =>
          /\ pc \in {"cleanup", "summary"}
          /\ invoked = 0
          /\ lastCommit.kind = "interrupted" /\ ~lastCommit.committed
          /\ Len(LedgerIterations) = startIteration - 1)
  /\ [][/\ (pc = "starting" /\ pc' = "top") => hasInterruptedWork' = (gitAvailable /\ dirty)
        /\ (hasInterruptedWork /\ ~hasInterruptedWork' /\ pc' \notin {"idle", "exited"}) =>
             /\ pc = "committingInterrupted"
             /\ lastCommit'.kind = "interrupted" /\ lastCommit'.committed
             /\ ~dirty'
        /\ (pc = "committingInterrupted" /\ pc' \notin {pc, "exited"}
              /\ ~lastCommit'.committed) =>
             /\ pc' = "cleanup"
             /\ outcome' = "interruptedWorkFailed"
             /\ ledger' = ledger]_vars

\* the first agent call of a run is in flight after the changes found at startup
\* were committed as interrupted work
C19_Witness ==
  /\ pc = "invoking"
  /\ invoked = 1
  /\ lastCommit.kind = "interrupted"
  /\ lastCommit.committed
  /\ lastCommit.iteration = startIteration
  /\ ~hasInterruptedWork

\* the path of a line as git printed it
PathOf(line) == substring(line, 3)

\* the path lies under the state directory of the engine
UnderStateDirectory(path) == Len(path) >= 2 /\ SubSeq(path, 1, 2) = <<".", "devloop/">>

\* C20: getUncommittedChanges(workspace, ['.devloop/']) reports hasChanges = false
\* whenever every changed path lies under .devloop/, for every status code and every
\* order of the lines, and hasChanges = true with that path listed whenever some
\* changed path lies outside it
C20_IgnoresStateDirectory ==
  uncommitted.called =>
    /\ (\A k \in DOMAIN statusOutput : UnderStateDirectory(PathOf(statusOutput[k]))) =>
         ~uncommitted.hasChanges
    /\ \A k \in DOMAIN statusOutput :
         ~UnderStateDirectory(PathOf(statusOutput[k])) =>
           /\ uncommitted.hasChanges
           /\ \E m \in DOMAIN uncommitted.files :
                uncommitted.files[m] = PathOf(statusOutput[k])

\* C21: rendering a ledger to its document form and parsing it back yields an equal
\* ledger: totalTasks, completed, remaining, lastUpdated and every field set on every
\* iteration record are preserved, for every combination of usage, error type and
\* error detail present or absent and every exit status
C21_RoundTrip ==
  reread # <<>> => reread[1] = handed[1]

\* the iteration list a reader of the ledger document gets
Persisted(file) ==
  IF file = NoFile THEN <<>> ELSE parseProgressDocument(file).iterations

\* C22: the ledger is append-only: after appendIteration the persisted iteration list
\* is the previously persisted list followed by the new record as the document holds
\* it; no earlier record is modified, reordered or dropped
C22_AppendOnly ==
  [][document' # document =>
       LET new == handed'[1].iterations[Len(handed'[1].iterations)]
       IN Persisted(document') = Append(Persisted(document), parseBlock(renderBlock(new)))]_vars

\* a second record has been appended after one with usage, error type and error detail
C22_Witness ==
  /\ document # NoFile
  /\ Len(document.blocks) = 2
  /\ document.blocks[1].usage # <<>>
  /\ document.blocks[1].errorDetail # <<>>
  /\ document.blocks[1].errorType = "task_failure"
  /\ document.blocks[2].exitStatus = "success"

\* C23: after appendIteration(path, totalTasks, record) the persisted totalTasks is the
\* task count of the current document, which was passed as totalTasks, also when the
\* ledger existed before
C23_TotalTasksCurrent ==
  ledger # NoFile => ledger.totalTasks = Len(requirements)

\* what invokeClaudeAutomated yields when the whole output arrives as one chunk
OneChunkRun ==
  LET st == onCloseBuffer(onData(NoOutput, delivered))
  IN [result |-> resolvedOnClose(st, closeCode, stderr), activities |-> st.activities]

\* C24: for any output of the agent and any way of splitting it into read chunks,
\* invokeClaudeAutomated produces the same progress activities and the same result
\* (success, output text, usage)
C24_ChunkingIrrelevant ==
  child = "closed" =>
    /\ claudeResult[1] = OneChunkRun.result
    /\ activities = OneChunkRun.activities

\* the line is not valid structured data or is an event of a shape the handler does
\* not know
Dropped(line) ==
  \/ ~isJson(line)
  \/ parseEvent(line).type \notin {"assistant", "content_block_start", "result"}

\* a data event that completes lines of this kind only
DropsAll ==
  /\ delivered' # delivered
  /\ LET chunk == SubSeq(delivered', Len(delivered) + 1, Len(delivered'))
         lines == split(lineBuffer \o toString(chunk))
     IN \A k \in 1..(Len(lines) - 1) : Dropped(lines[k])

\* C25: a line of agent output that is not valid structured data or has an unknown
\* event shape is dropped without raising an error: it leaves the result text, the
\* error flag, the usage and the progress activities as they were, in the data
\* handler and as the residual line of the close handler, and the invocation still
\* resolves on process exit
C25_MalformedDropped ==
  /\ [](child = "closed" => claudeResult # <<>>)
  /\ [][DropsAll => UNCHANGED <<resultText, tokenUsage, isError, activities>>]_vars
  /\ [][(child = "running" /\ child' = "closed" /\ Dropped(lineBuffer))
          => UNCHANGED <<resultText, tokenUsage, isError, activities>>]_vars

\* the call resolved with the result of the final event although a line that is not
\* JSON came before it
C25_Witness ==
  /\ child = "closed"
  /\ delivered # <<>>
  /\ delivered[1] = "not json"
  /\ claudeResult # <<>>
  /\ claudeResult[1].success
  /\ claudeResult[1].output = <<"caf", "é">>

\* the output read so far holds a final-result event flagged as an error
ResultFlagged ==
  LET lines == split(toString(delivered))
  IN \E k \in DOMAIN lines :
       /\ IsResultLine(lines[k])
       /\ parseEvent(lines[k]).body[1] = "is_error:true"

\* C26: invokeClaudeAutomated returns success = true, with no errorType, exactly when
\* the child process exits with code 0 and no final-result event flagged as an error
\* was captured; in every other case, a spawn error included, it returns
\* success = false together with an errorType
C26_SuccessIffCleanExit ==
  /\ child = "closed" =>
       /\ claudeResult[1].success <=> (closeCode = 0 /\ ~ResultFlagged)
       /\ claudeResult[1].success => claudeResult[1].errorType = "undefined"
       /\ ~claudeResult[1].success => claudeResult[1].errorType \in ClaudeErrorType
  /\ child = "failed" =>
       /\ ~claudeResult[1].success
       /\ claudeResult[1].errorType \in ClaudeErrorType

\* the process exited with code 0 after a result event flagged as an error
C26_Witness ==
  /\ child = "closed"
  /\ closeCode = 0
  /\ ResultFlagged
  /\ ~claudeResult[1].success
  /\ claudeResult[1].errorType = "unknown"

\* the kind the rule table gives a combined error text, the first matching rule
\* winning, where usageLimit is the phrase about a usage limit in the first rule
KindByTable(text, usageLimit) ==
  LET Has(pattern) == includes(toLowerCase(text), pattern)
      Rule1 == \/ Has(<<"rate", " ", "limit">>) \/ Has(usageLimit) \/ Has(<<"429">>)
               \/ (Has(<<"400">>) /\ Has(<<"limit">>))
      Rule2 == Has(<<"overload">>) \/ Has(<<"503">>)
      Rule3 == Has(<<"401">>) \/ Has(<<"unauthorized">>) \/ Has(<<"authentication">>)
      Rule4 == \/ Has(<<"econnrefused">>) \/ Has(<<"enotfound">>) \/ Has(<<"timeout">>)
               \/ Has(<<"network">>)
      Rule5 == Has(<<"api", " ", "error">>)
  IN CASE Rule1 -> "rate_limit"
       [] ~Rule1 /\ Rule2 -> "api_overload"
       [] ~Rule1 /\ ~Rule2 /\ Rule3 -> "auth_error"
       [] ~Rule1 /\ ~Rule2 /\ ~Rule3 /\ Rule4 -> "network_error"
       [] ~Rule1 /\ ~Rule2 /\ ~Rule3 /\ ~Rule4 /\ Rule5 -> "unknown"
       [] OTHER -> "task_failure"

\* the invocation resolved as failed
Failed ==
  /\ child \in {"closed", "failed"}
  /\ ~claudeResult[1].success

\* C27 as stated: the first rule matches text that contains "usage limit"
C27_Original ==
  Failed =>
    claudeResult[1].errorType = KindByTable(claudeResult[1].error[1], <<"usage", " ", "limit">>)

\* C27: failure classification is a first-match-wins rule table over the combined
\* error text: (1) "rate limit", "api usage limit", "429", or both "400" and "limit"
\* give rate_limit; (2) else "overload" or "503" give api_overload; (3) else "401",
\* "unauthorized" or "authentication" give auth_error; (4) else "econnrefused",
\* "enotfound", "timeout" or "network" give network_error; (5) else "api error"
\* gives unknown; (6) otherwise task_failure; letter case is ignored
C27_ClassificationTable ==
  Failed =>
    claudeResult[1].errorType =
      KindByTable(claudeResult[1].error[1], <<"api", " ", "usage", " ", "limit">>)

\* a failure whose text matches the rule for auth_error and the later rule for
\* network_error
C27_Witness ==
  /\ Failed
  /\ stderr = <<"connect", " ", "timeout", " ", "401">>
  /\ claudeResult[1].errorType = "auth_error"

\* the agent call of this iteration failed and no stop had been requested when it
\* returned
FailedCall == ~result.success /\ ~stopSeen /\ result.errorType # "undefined"

\* the kinds the claim lists as API-level
ApiLevelKinds == {"rate_limit", "api_overload", "auth_error", "network_error", "unknown"}

\* C28: isApiError is true of rate_limit, api_overload, auth_error, network_error and
\* unknown, false of task_failure and of an absent kind; after a failed agent call
\* the loop is left at the API error check exactly if the kind is one of those five,
\* whatever else the result carries, and goes on to the commit otherwise
C28_HaltByKindOnly ==
  /\ [](\A kind \in ClaudeErrorType \cup {"undefined"} :
          isApiError(kind) <=> kind \in ApiLevelKinds)
  /\ [](FailedCall =>
          /\ pc \in {"committing", "sleeping"} => result.errorType = "task_failure"
          /\ outcome = "apiError" <=> (pc \in {"cleanup", "summary"}
                                        /\ result.errorType \in ApiLevelKinds))
  /\ [][(FailedCall /\ pc = "updatingSession" /\ pc' \notin {"updatingSession", "exited"}) =>
          pc' = (IF result.errorType \in ApiLevelKinds THEN "cleanup" ELSE "committing")]_vars

\* the loop went on after a task failure and was left in the next iteration for an
\* API error whose result carried usage
C28_Witness ==
  /\ FailedCall
  /\ outcome = "apiError"
  /\ result.errorType = "unknown"
  /\ result.tokenUsage = 1
  /\ i = startIteration + 1
  /\ Len(LedgerIterations) = 2
  /\ LedgerIterations[1].errorType = "task_failure"

\* the task the loop goes on with is a pending task of these tasks, and every task
\* it depends on is done in them
SelectableIn(task, tasks) ==
  /\ \E k \in DOMAIN tasks : tasks[k] = task /\ tasks[k].status = "pending"
  /\ \A dep \in task.dependencies :
       \E k \in DOMAIN tasks : tasks[k].id = dep /\ tasks[k].status = "done"

\* C29: the selection of every iteration is made from the task document as storage
\* holds it when the iteration reads it, so status changes made before by the agent
\* or anyone else count; the task the agent is invoked for is pending in the
\* document as read, never done
C29_SelectionFromStorage ==
  /\ [][(pc = "parsing" /\ pc' \in {"invoking", "committingInterrupted"}) =>
          /\ requirements' = doc
          /\ nextTask' = getNextTask(doc)
          /\ SelectableIn(nextTask', doc)]_vars
  /\ [][(pc = "parsing" /\ pc' = "cleanup" /\ outcome' \in {"completed", "blocked"}) =>
          /\ requirements' = doc
          /\ getNextTask(doc) = NoTask
          /\ \A k \in DOMAIN doc : ~SelectableIn(doc[k], doc)]_vars
  /\ [][invoked' = invoked + 1 => SelectableIn(nextTask', requirements')]_vars
  /\ [](pc = "invoking" => SelectableIn(nextTask, requirements))

\* the second iteration invokes the agent for TASK-10, which depends on TASK-2:
\* TASK-2 was marked done during the first iteration
C29_Witness ==
  /\ pc = "invoking"
  /\ i = startIteration + 1
  /\ Len(LedgerIterations) = 1
  /\ nextTask.id = "TASK-10"
  /\ nextTask.dependencies = {"TASK-2"}
  /\ \E k \in DOMAIN doc : doc[k].id = "TASK-2" /\ doc[k].status = "done"

\* C30: when parseRequirements throws at the start of an iteration the loop is left
\* at once: the agent is not invoked, no record is appended and no commit is made
\* for that iteration, and the ledger stays as it was until the run has ended
C30_ParseFailureEndsRun ==
  /\ [][(pc = "parsing" /\ outcome' = "parseError") =>
          /\ pc' = "cleanup"
          /\ invoked' = invoked
          /\ ledger' = ledger
          /\ lastCommit' = lastCommit
          /\ session' = session
          /\ dirty' = dirty]_vars
  /\ []((outcome = "parseError" /\ RunActive) =>
          /\ pc \in {"cleanup", "summary"}
          /\ ~HasRecord(i)
          /\ ~(lastCommit.kind = "iteration" /\ lastCommit.iteration = i))
  /\ [][(outcome = "parseError" /\ RunActive) =>
          /\ ledger' = ledger
          /\ invoked' <= invoked
          /\ pc' \in {"cleanup", "summary", "idle", "exited"}]_vars

\* the second iteration of a run failed to read the task document: the record of
\* the first iteration is the last of the ledger
C30_Witness ==
  /\ outcome = "parseError"
  /\ pc = "summary"
  /\ i = startIteration + 1
  /\ invoked = 1
  /\ LedgerIterations # <<>>
  /\ LastRecord.iteration = i - 1

\* C31: when runLoop returns, whatever ended its loop, both shutdown flags are false
\* and the SIGINT listener is removed; the next run of the process starts with both
\* flags false and the listener registered, so that its first signal only requests
\* a stop
C31_FlagsResetOnReturn ==
  /\ [](pc \in {"summary", "idle"} =>
          ~stopRequested /\ ~forceStopRequested /\ ~handlerInstalled)
  /\ [][(pc = "cleanup" /\ pc' # "cleanup") =>
          /\ pc' = "summary"
          /\ ~stopRequested' /\ ~forceStopRequested' /\ ~handlerInstalled']_vars
  /\ [][(pc = "idle" /\ pc' = "starting") =>
          ~stopRequested' /\ ~forceStopRequested' /\ handlerInstalled']_vars
  /\ [][(RunActive /\ pc' = "exited" /\ handlerInstalled) =>
          (stopRequested /\ forceStopRequested)]_vars
  /\ [][(~forceStopRequested /\ forceStopRequested') =>
          (stopRequested /\ RunActive /\ pc' = pc)]_vars
  /\ [][(~stopRequested /\ stopRequested') =>
          (~forceStopRequested' /\ RunActive /\ pc' = pc)]_vars

\* a run that was stopped during its agent call has returned and the next run of
\* the same process has started with no stop pending
C31_Witness ==
  /\ pc = "starting"
  /\ outcome = "running"
  /\ LedgerIterations # <<>>
  /\ LastRecord.exitStatus = "interrupted"
  /\ handlerInstalled
  /\ ~stopRequested
  /\ ~forceStopRequested

\* agent calls of the current run whose record is not in the ledger yet
Unrecorded == invoked - (Len(LedgerIterations) - (startIteration - 1))

\* the loop of the current run is under way
InLoop == pc \notin {"idle", "starting", "exited"}

\* C32: at most one agent call of a run is in flight: a call is only started when
\* every earlier call of the run has returned and its record is appended, and
\* iteration N+1 selects its task only after the checkpoint commit of N returned
C32_OneInFlight ==
  /\ [](InLoop =>
          /\ Unrecorded \in {0, 1}
          /\ Unrecorded = 1 <=> pc \in {"invoking", "appending"})
  /\ []((pc \in {"parsing", "committingInterrupted", "invoking"} /\ i > startIteration
           /\ ~config.dryRun) =>
          /\ HasRecord(i - 1)
          /\ lastCommit.kind = "iteration" /\ lastCommit.iteration = i - 1)
  /\ [][invoked' = invoked + 1 =>
          /\ pc \in {"parsing", "committingInterrupted"} /\ pc' = "invoking"
          /\ Unrecorded = 0
          /\ result' = NoResult]_vars

\* the second agent call of a run is in flight; the first one is recorded and
\* its checkpoint commit has returned
C32_Witness ==
  /\ pc = "invoking"
  /\ invoked = 2
  /\ Unrecorded = 1
  /\ Len(LedgerIterations) = 1
  /\ lastCommit.iteration = i - 1

\* C33: a dry run never invokes the agent, never appends to the ledger and never
\* creates a commit
C33_DryRunNoChanges ==
  [][(InLoop /\ config.dryRun) =>
       /\ invoked' = invoked
       /\ ledger' = ledger
       /\ ~(lastCommit' # lastCommit /\ lastCommit'.committed)]_vars

\* the run is ending after a stop was requested during the agent call of nextTask
StoppedMidTask == outcome = "interrupted" /\ pc \in {"cleanup", "summary"}

\* the ledger holds no success record of this iteration or for the task of it
NoCompletionRecorded ==
  /\ LastRecord.iteration = i
  /\ LastRecord.exitStatus = "interrupted"
  /\ LastRecord.taskCompleted = "none"

\* C34: when a run ends after the operator asked to stop during the agent call for
\* task T, the ledger records no completion of T, T is still pending in the task
\* document, and the selection of the next run returns T
C34_StoppedTaskRetried ==
  StoppedMidTask =>
    /\ NoCompletionRecorded
    /\ \E k \in DOMAIN doc : doc[k].id = nextTask.id /\ doc[k].status = "pending"
    /\ getNextTask(doc) = nextTask

\* C35: a run whose loop was left at the top-of-iteration stop check, between tasks,
\* reports in its final summary that it was stopped by the user
C35_StoppedReported ==
  (pc = "idle" /\ outcome = "stopped") => stoppedMessage

\* C36 as stated: no agent invocation is started once a stop has been requested
C36_Original ==
  [][invoked' = invoked + 1 => ~stopRequested]_vars

\* C36 amended: a stop request seen by the check at the top of an iteration ends
\* the loop without another agent invocation; a request that arrives after that
\* check, while the task document is read or interrupted work is committed, does
\* not prevent the agent call of that iteration, but the call is recorded as
\* interrupted and is the last of the run
C36_StopSeenAtLoopTop ==
  /\ [][(pc = "top" /\ stopRequested /\ pc' # "top") =>
          (pc' = "cleanup" /\ invoked' = invoked)]_vars
  /\ [][(invoked' = invoked + 1 /\ stopRequested) =>
          (pc \in {"parsing", "committingInterrupted"} /\ pc' = "invoking")]_vars
  /\ [][(pc = "invoking" /\ stopRequested /\ pc' = "appending") =>
          iterationLog'.exitStatus = "interrupted"]_vars
  /\ []((InLoop /\ iterationLog.exitStatus = "interrupted") =>
          pc \in {"appending", "updatingSession", "committing", "cleanup", "summary"})

\* the agent is being invoked although the stop was requested before it was spawned
C36_Witness ==
  /\ pc = "invoking"
  /\ stopRequested
  /\ ~stopDuringCall
  /\ invoked = 1

\* C37: the loop is left as completed only if every task of the document read in
\* that iteration is done
C37_CompleteMeansAllDone ==
  (outcome = "completed" /\ pc \in {"cleanup", "summary"}) =>
    \A k \in DOMAIN requirements : requirements[k].status = "done"

\* C38: the completed count of the ledger never exceeds its totalTasks, remaining is
\* never negative, and no task id is the taskCompleted of two success records
C38_CompletedBounded ==
  ledger # NoFile =>
    /\ ledger.completed <= ledger.totalTasks
    /\ ledger.remaining >= 0
    /\ \A k, m \in SuccessWithTask :
         k # m => LedgerIterations[k].taskCompleted # LedgerIterations[m].taskCompleted

\* the iteration number of the last record of the ledger, 0 for an empty ledger
LastIterationOfLedger ==
  IF LedgerIterations = <<>> THEN 0 ELSE LastRecord.iteration

\* C39: when a run ends, lastIteration of an existing session equals the iteration
\* number of the last ledger record, and lastIteration never decreases
C39_SessionFollowsLedger ==
  /\ []((pc = "summary" /\ session # NoSession) => session = LastIterationOfLedger)
  /\ [][(session # NoSession /\ session' # NoSession) => session' >= session]_vars

\* C40 as stated: every run reaches its final summary
C40_Original == (pc = "starting") ~> (pc = "summary")

\* C40 amended: every run reaches its final summary unless the third signal ends
\* the process first; the loop body is entered for at most maxIterations
\* iterations, with at most that many agent invocations
C40_RunTerminates ==
  /\ (pc = "starting") ~> (pc = "summary" \/ (pc = "exited" /\ outcome = "forceExit"))
  /\ [](InLoop => (i <= endIteration + 1 /\ invoked <= config.maxIterations))
  /\ [][(pc = "top" /\ pc' = "parsing") => i <= endIteration]_vars

\* a run on a document whose only pending tasks wait for each other reached its
\* summary as blocked
C40_Witness ==
  /\ pc = "summary"
  /\ outcome = "blocked"
  /\ \E k \in DOMAIN doc : doc[k].status = "pending" /\ doc[k].dependencies # {}
====
